---- MODULE Spec2Model ----
(***************************************************************************)
(* Brand/event matchmaking (app/matching.py over the store functions of    *)
(* app/database.py).                                                       *)
(*                                                                         *)
(* Conventions of the model                                                *)
(*   - a nullable id (city_id, weight/rule set id) is an integer, 0 being  *)
(*     NULL: the code tests them with `if not x`, which treats None and 0  *)
(*     alike, and serial ids start at 1;                                   *)
(*   - any other Optional value is a sequence: << >> is None, <<v>> is v;  *)
(*   - a weight is an integer number of hundredths (0.25 is 25);           *)
(*   - a match_factor is an integer number of 1/FactorScale (1.0 is        *)
(*     FactorScale), so a contribution is in 1/(100*FactorScale);          *)
(*   - a rounded score (round(x, 2)) is an integer number of hundredths;   *)
(*   - a list of rows that the code only turns into a set of ids is that   *)
(*     set of ids; an explanation string is the sequence of its lines,     *)
(*     each line a short tag of its text.                                  *)
(***************************************************************************)
EXTENDS Integers, Sequences, FiniteSets, TLC

\* ------------------------------------------------------------------------
\* Bounds of the model
\* ------------------------------------------------------------------------
NBrands == 2
NEvents == 2
NDeliverables == 2

BrandIds == 1..NBrands
EventIds == (NBrands + 1)..(NBrands + NEvents)
OrgIds == BrandIds \cup EventIds
DeliverableIds == 1..NDeliverables

\* ------------------------------------------------------------------------
\* Arithmetic helpers
\* ------------------------------------------------------------------------
RECURSIVE Fact(_)
Fact(n) == IF n <= 1 THEN 1 ELSE n * Fact(n - 1)

\* Every denominator a match_factor can have divides FactorScale: 2 (the
\* neutral 0.5), 1..3 (the mean of up to three audience sub-scores) and
\* 1..NDeliverables (the share of wanted deliverables offered).
FactorScale == 6 * Fact(NDeliverables)

Max(a, b) == IF a >= b THEN a ELSE b
Min(a, b) == IF a <= b THEN a ELSE b
Abs(a) == IF a >= 0 THEN a ELSE 0 - a

RECURSIVE SumSeq(_)
SumSeq(s) == IF s = << >> THEN 0 ELSE Head(s) + SumSeq(Tail(s))

\* round(n/d) to the nearest integer, an exact tie going to the even one
\* (Python's round()); n >= 0, d > 0.
RoundDiv(n, d) ==
    LET q == n \div d
        r == n % d
    IN  IF 2 * r < d THEN q
        ELSE IF 2 * r > d THEN q + 1
        ELSE IF q % 2 = 0 THEN q ELSE q + 1

\* x or 0, for an Optional number x
OrZero(x) == IF x = << >> THEN <<0>> ELSE x

\* ------------------------------------------------------------------------
\* Reference geography (configdb cities / states / countries): the rows an
\* active city resolves to.  City 1 and 2 have a full hierarchy, city 3 has
\* no state (so no country either); any other id does not resolve.
\* ------------------------------------------------------------------------
CityRows ==
    (1 :> [city_id |-> 1, state_id |-> 1, country_id |-> 1]) @@
    (2 :> [city_id |-> 2, state_id |-> 2, country_id |-> 1]) @@
    (3 :> [city_id |-> 3, state_id |-> 0, country_id |-> 0])

resolve_city_geography(city_id) ==
    IF city_id \in DOMAIN CityRows THEN <<CityRows[city_id]>> ELSE << >>

\* Mutant: the focus type is ignored, every brand is matched by city.
check_geographic_match_by_city(event_city_id, brand_profile) ==
    IF resolve_city_geography(event_city_id) = << >>
    THEN [matches |-> FALSE, match_level |-> "None",
          explanation |-> <<"Event city not found in geography database">>]
    ELSE IF event_city_id \in brand_profile.target_cities
    THEN [matches |-> TRUE, match_level |-> "city",
          explanation |-> <<"City match">>]
    ELSE [matches |-> FALSE, match_level |-> "None",
          explanation |-> <<"City not in brand's target cities">>]

\* Mutant: a focus type that is neither local, state nor national is taken
\* for local, and the state of a city is read without a test for NULL.
check_geographic_match_lenient(event_city_id, brand_profile) ==
    LET focus_type == brand_profile.geographic_focus_type
        event_geo == resolve_city_geography(event_city_id)
    IN  IF event_geo = << >>
        THEN [matches |-> FALSE, match_level |-> "None",
              explanation |-> <<"Event city not found in geography database">>]
        ELSE IF focus_type = "state"
        THEN IF event_geo[1].state_id = 0
             THEN [raised |-> "KeyError"]
             ELSE IF event_geo[1].state_id \in brand_profile.target_states
             THEN [matches |-> TRUE, match_level |-> "state",
                   explanation |-> <<"State match">>]
             ELSE [matches |-> FALSE, match_level |-> "None",
                   explanation |-> <<"State not in brand's target states">>]
        ELSE IF focus_type = "national"
        THEN IF event_geo[1].country_id \in brand_profile.target_countries
             THEN [matches |-> TRUE, match_level |-> "country",
                   explanation |-> <<"Country match">>]
             ELSE [matches |-> FALSE, match_level |-> "None",
                   explanation |-> <<"Country not in brand's target countries">>]
        ELSE IF event_city_id \in brand_profile.target_cities
        THEN [matches |-> TRUE, match_level |-> "city",
              explanation |-> <<"City match">>]
        ELSE [matches |-> FALSE, match_level |-> "None",
              explanation |-> <<"City not in brand's target cities">>]

check_geographic_match(event_city_id, brand_profile) ==
    LET focus_type == brand_profile.geographic_focus_type
        event_geo == resolve_city_geography(event_city_id)
    IN  IF event_geo = << >>
        THEN [matches |-> FALSE, match_level |-> "None",
              explanation |-> <<"Event city not found in geography database">>]
        ELSE IF focus_type = "local"
        THEN IF event_city_id \in brand_profile.target_cities
             THEN [matches |-> TRUE, match_level |-> "city",
                   explanation |-> <<"City match">>]
             ELSE [matches |-> FALSE, match_level |-> "None",
                   explanation |-> <<"City not in brand's target cities">>]
        ELSE IF focus_type = "state"
        THEN LET event_state_id == event_geo[1].state_id
             IN  IF event_state_id # 0 /\ event_state_id \in brand_profile.target_states
                 THEN [matches |-> TRUE, match_level |-> "state",
                       explanation |-> <<"State match">>]
                 ELSE [matches |-> FALSE, match_level |-> "None",
                       explanation |-> <<"State not in brand's target states">>]
        ELSE IF focus_type = "national"
        THEN LET event_country_id == event_geo[1].country_id
             IN  IF event_country_id # 0 /\ event_country_id \in brand_profile.target_countries
                 THEN [matches |-> TRUE, match_level |-> "country",
                       explanation |-> <<"Country match">>]
                 ELSE [matches |-> FALSE, match_level |-> "None",
                       explanation |-> <<"Country not in brand's target countries">>]
        ELSE [matches |-> FALSE, match_level |-> "None",
              explanation |-> <<"Unknown geographic focus type">>]

\* ------------------------------------------------------------------------
\* Scoring functions
\* ------------------------------------------------------------------------
\* Mutant: an event without a city passes the hard filter.
score_geography_no_city_passes(event_city_id, brand_profile, weight) ==
    IF event_city_id = 0
    THEN [weight |-> weight, match_factor |-> 0, contribution |-> 0,
          explanation |-> <<"Event city not specified">>,
          passed_hard_filter |-> TRUE]
    ELSE LET geo_match == check_geographic_match(event_city_id, brand_profile)
         IN  IF geo_match.matches
             THEN [weight |-> weight, match_factor |-> FactorScale,
                   contribution |-> weight * FactorScale,
                   explanation |-> geo_match.explanation,
                   passed_hard_filter |-> TRUE,
                   match_level |-> geo_match.match_level]
             ELSE [weight |-> weight, match_factor |-> 0, contribution |-> 0,
                   explanation |-> geo_match.explanation,
                   passed_hard_filter |-> FALSE]

score_geography(event_city_id, brand_profile, weight) ==
    IF event_city_id = 0
    THEN [weight |-> weight, match_factor |-> 0, contribution |-> 0,
          explanation |-> <<"Event city not specified">>,
          passed_hard_filter |-> FALSE]
    ELSE LET geo_match == check_geographic_match(event_city_id, brand_profile)
         IN  IF geo_match.matches
             THEN [weight |-> weight, match_factor |-> FactorScale,
                   contribution |-> weight * FactorScale,
                   explanation |-> geo_match.explanation,
                   passed_hard_filter |-> TRUE,
                   match_level |-> geo_match.match_level]
             ELSE [weight |-> weight, match_factor |-> 0, contribution |-> 0,
                   explanation |-> geo_match.explanation,
                   passed_hard_filter |-> FALSE]

\* Mutant: ranges that only touch at one end do not count as overlapping.
BudgetOverlapsStrict(emin, emax, bmin, bmax) == Max(bmin, emin) < Min(bmax, emax)

\* overlap_min <= overlap_max: the two ranges overlap.
BudgetOverlaps(emin, emax, bmin, bmax) == Max(bmin, emin) <= Min(bmax, emax)

\* Mutant: only the distance from the event's maximum to the brand's minimum.
BudgetGapOneSided(emin, emax, bmin, bmax) == Abs(emax - bmin)

\* gap: the smaller distance between facing ends of the two ranges.
BudgetGap(emin, emax, bmin, bmax) == Min(Abs(emax - bmin), Abs(bmax - emin))

\* budget_near_boundary_ratio is in hundredths (0.1 is 10).
score_budget(event_funding_min, event_funding_max, sponsor_budget_min, sponsor_budget_max, weight, budget_near_boundary_ratio) ==
    IF event_funding_min = << >> \/ event_funding_max = << >>
    THEN [weight |-> weight, match_factor |-> FactorScale \div 2,
          contribution |-> weight * (FactorScale \div 2),
          explanation |-> <<"Event budget not specified">>]
    ELSE LET emin == event_funding_min[1]
             emax == event_funding_max[1]
             bmin == sponsor_budget_min[1]
             bmax == sponsor_budget_max[1]
             overlaps == BudgetOverlaps(emin, emax, bmin, bmax)
             sponsor_range == bmax - bmin
             event_range == emax - emin
             gap == BudgetGap(emin, emax, bmin, bmax)
             match_factor ==
                 IF overlaps THEN FactorScale
                 ELSE IF gap * 100 <= Max(sponsor_range, event_range) * budget_near_boundary_ratio
                 THEN FactorScale \div 2
                 ELSE 0
             explanation ==
                 IF overlaps THEN <<"Budget ranges overlap">>
                 ELSE IF gap * 100 <= Max(sponsor_range, event_range) * budget_near_boundary_ratio
                 THEN <<"Budget ranges are close but don't overlap">>
                 ELSE <<"Budget ranges don't match">>
         IN  [weight |-> weight, match_factor |-> match_factor,
              contribution |-> weight * match_factor,
              explanation |-> explanation]

\* Mutant: the preferred categories are looked at before the avoided ones.
score_categories_preferred_first(event_categories, preferred_categories, avoided_categories, weight) ==
    IF event_categories = {}
    THEN [weight |-> weight, match_factor |-> FactorScale \div 2,
          contribution |-> weight * (FactorScale \div 2),
          explanation |-> <<"Event categories not specified">>]
    ELSE IF event_categories \cap preferred_categories # {}
    THEN [weight |-> weight, match_factor |-> FactorScale,
          contribution |-> weight * FactorScale,
          explanation |-> <<"Event has preferred categories">>]
    ELSE IF event_categories \cap avoided_categories # {}
    THEN [weight |-> weight, match_factor |-> 0, contribution |-> 0,
          explanation |-> <<"Event has avoided categories">>]
    ELSE [weight |-> weight, match_factor |-> FactorScale \div 2,
          contribution |-> weight * (FactorScale \div 2),
          explanation |-> <<"Event categories are neutral (not preferred, not avoided)">>]

score_categories(event_categories, preferred_categories, avoided_categories, weight) ==
    IF event_categories = {}
    THEN [weight |-> weight, match_factor |-> FactorScale \div 2,
          contribution |-> weight * (FactorScale \div 2),
          explanation |-> <<"Event categories not specified">>]
    ELSE IF event_categories \cap avoided_categories # {}
    THEN [weight |-> weight, match_factor |-> 0, contribution |-> 0,
          explanation |-> <<"Event has avoided categories">>]
    ELSE IF event_categories \cap preferred_categories # {}
    THEN [weight |-> weight, match_factor |-> FactorScale,
          contribution |-> weight * FactorScale,
          explanation |-> <<"Event has preferred categories">>]
    ELSE [weight |-> weight, match_factor |-> FactorScale \div 2,
          contribution |-> weight * (FactorScale \div 2),
          explanation |-> <<"Event categories are neutral (not preferred, not avoided)">>]

\* Mutant: a dimension only matches when exactly one id is shared.
OverlapScoreExactlyOne(brand_ids, event_ids, hit, miss) ==
    IF brand_ids # {} /\ event_ids # {}
    THEN IF Cardinality(brand_ids \cap event_ids) = 1
         THEN <<[score |-> 1, explanation |-> hit]>>
         ELSE <<[score |-> 0, explanation |-> miss]>>
    ELSE << >>

\* One binary sub-score per dimension on which both sides have data.
OverlapScore(brand_ids, event_ids, hit, miss) ==
    IF brand_ids # {} /\ event_ids # {}
    THEN IF brand_ids \cap event_ids # {}
         THEN <<[score |-> 1, explanation |-> hit]>>
         ELSE <<[score |-> 0, explanation |-> miss]>>
    ELSE << >>

score_audience_overlap(event_age_distribution, event_audience_types, event_interest_tags, brand_age_buckets, brand_audience_types, brand_interest_tags, weight) ==
    LET parts ==
            OverlapScore(brand_age_buckets, event_age_distribution,
                         "Age buckets overlap", "No age bucket overlap")
            \o OverlapScore(brand_audience_types, event_audience_types,
                            "Audience types match", "No audience type overlap")
            \o OverlapScore(brand_interest_tags, event_interest_tags,
                            "Interest tags match", "No interest tag overlap")
        scores == [i \in 1..Len(parts) |-> parts[i].score]
        explanations == [i \in 1..Len(parts) |-> parts[i].explanation]
        match_factor ==
            IF scores # << >>
            THEN (SumSeq(scores) * FactorScale) \div Len(scores)
            ELSE FactorScale \div 2
    IN  [weight |-> weight, match_factor |-> match_factor,
         contribution |-> weight * match_factor,
         explanation |-> IF scores # << >> THEN explanations
                         ELSE <<"Insufficient audience data to score">>]

\* Mutant: the must-have check is skipped when every wanted deliverable is
\* offered.
score_deliverables_wanted_first(event_deliverables, wanted_deliverables, must_have_deliverables, weight) ==
    IF event_deliverables = {}
    THEN [weight |-> weight, match_factor |-> 0, contribution |-> 0,
          explanation |-> <<"Event offers no deliverables">>,
          passed_hard_filter |-> FALSE]
    ELSE IF /\ must_have_deliverables # {}
            /\ must_have_deliverables \ event_deliverables # {}
            /\ ~(wanted_deliverables # {} /\ wanted_deliverables \subseteq event_deliverables)
    THEN [weight |-> weight, match_factor |-> 0, contribution |-> 0,
          explanation |-> <<"Event missing must-have deliverables">>,
          passed_hard_filter |-> FALSE]
    ELSE LET offered == wanted_deliverables \cap event_deliverables
             match_factor ==
                 IF wanted_deliverables # {}
                 THEN IF offered # {}
                      THEN (Cardinality(offered) * FactorScale) \div Cardinality(wanted_deliverables)
                      ELSE FactorScale \div 2
                 ELSE FactorScale
         IN  [weight |-> weight, match_factor |-> match_factor,
              contribution |-> weight * match_factor,
              explanation |-> <<"Event offers wanted deliverables">>,
              passed_hard_filter |-> TRUE]

\* Mutant: the share is taken of everything the event offers, not of the
\* wanted deliverables it offers.
score_deliverables_counts_all_offered(event_deliverables, wanted_deliverables, must_have_deliverables, weight) ==
    IF event_deliverables = {}
    THEN [weight |-> weight, match_factor |-> 0, contribution |-> 0,
          explanation |-> <<"Event offers no deliverables">>,
          passed_hard_filter |-> FALSE]
    ELSE IF must_have_deliverables # {} /\ must_have_deliverables \ event_deliverables # {}
    THEN [weight |-> weight, match_factor |-> 0, contribution |-> 0,
          explanation |-> <<"Event missing must-have deliverables">>,
          passed_hard_filter |-> FALSE]
    ELSE LET offered == wanted_deliverables \cap event_deliverables
             match_factor ==
                 IF wanted_deliverables # {}
                 THEN IF offered # {}
                      THEN (Cardinality(event_deliverables) * FactorScale)
                               \div Cardinality(wanted_deliverables)
                      ELSE FactorScale \div 2
                 ELSE FactorScale
         IN  [weight |-> weight, match_factor |-> match_factor,
              contribution |-> weight * match_factor,
              explanation |-> <<"Event offers wanted deliverables">>,
              passed_hard_filter |-> TRUE]

\* Mutant: an offer that holds none of the wanted deliverables scores 0.
score_deliverables_none_wanted_zero(event_deliverables, wanted_deliverables, must_have_deliverables, weight) ==
    IF event_deliverables = {}
    THEN [weight |-> weight, match_factor |-> 0, contribution |-> 0,
          explanation |-> <<"Event offers no deliverables">>,
          passed_hard_filter |-> FALSE]
    ELSE IF must_have_deliverables # {} /\ must_have_deliverables \ event_deliverables # {}
    THEN [weight |-> weight, match_factor |-> 0, contribution |-> 0,
          explanation |-> <<"Event missing must-have deliverables">>,
          passed_hard_filter |-> FALSE]
    ELSE LET offered == wanted_deliverables \cap event_deliverables
             match_factor ==
                 IF wanted_deliverables # {}
                 THEN IF offered # {}
                      THEN (Cardinality(offered) * FactorScale) \div Cardinality(wanted_deliverables)
                      ELSE 0
                 ELSE FactorScale
             explanation ==
                 IF wanted_deliverables # {}
                 THEN IF offered # {}
                      THEN <<"Event offers wanted deliverables">>
                      ELSE <<"Event offers deliverables, but none are in wanted list">>
                 ELSE <<"No specific deliverable preferences">>
         IN  [weight |-> weight, match_factor |-> match_factor,
              contribution |-> weight * match_factor,
              explanation |-> explanation,
              passed_hard_filter |-> TRUE]

\* Mutant: the hard filter passes only for a brand that has must-haves.
score_deliverables_filter_needs_must_have(event_deliverables, wanted_deliverables, must_have_deliverables, weight) ==
    IF event_deliverables = {}
    THEN [weight |-> weight, match_factor |-> 0, contribution |-> 0,
          explanation |-> <<"Event offers no deliverables">>,
          passed_hard_filter |-> FALSE]
    ELSE IF must_have_deliverables # {} /\ must_have_deliverables \ event_deliverables # {}
    THEN [weight |-> weight, match_factor |-> 0, contribution |-> 0,
          explanation |-> <<"Event missing must-have deliverables">>,
          passed_hard_filter |-> FALSE]
    ELSE LET offered == wanted_deliverables \cap event_deliverables
             match_factor ==
                 IF wanted_deliverables # {}
                 THEN IF offered # {}
                      THEN (Cardinality(offered) * FactorScale) \div Cardinality(wanted_deliverables)
                      ELSE FactorScale \div 2
                 ELSE FactorScale
             explanation ==
                 IF wanted_deliverables # {}
                 THEN IF offered # {}
                      THEN <<"Event offers wanted deliverables">>
                      ELSE <<"Event offers deliverables, but none are in wanted list">>
                 ELSE <<"No specific deliverable preferences">>
         IN  [weight |-> weight, match_factor |-> match_factor,
              contribution |-> weight * match_factor,
              explanation |-> explanation,
              passed_hard_filter |-> must_have_deliverables # {}]

score_deliverables(event_deliverables, wanted_deliverables, must_have_deliverables, weight) ==
    IF event_deliverables = {}
    THEN [weight |-> weight, match_factor |-> 0, contribution |-> 0,
          explanation |-> <<"Event offers no deliverables">>,
          passed_hard_filter |-> FALSE]
    ELSE IF must_have_deliverables # {} /\ must_have_deliverables \ event_deliverables # {}
    THEN [weight |-> weight, match_factor |-> 0, contribution |-> 0,
          explanation |-> <<"Event missing must-have deliverables">>,
          passed_hard_filter |-> FALSE]
    ELSE LET offered == wanted_deliverables \cap event_deliverables
             match_factor ==
                 IF wanted_deliverables # {}
                 THEN IF offered # {}
                      THEN (Cardinality(offered) * FactorScale) \div Cardinality(wanted_deliverables)
                      ELSE FactorScale \div 2
                 ELSE FactorScale
             explanation ==
                 IF wanted_deliverables # {}
                 THEN IF offered # {}
                      THEN <<"Event offers wanted deliverables">>
                      ELSE <<"Event offers deliverables, but none are in wanted list">>
                 ELSE <<"No specific deliverable preferences">>
         IN  [weight |-> weight, match_factor |-> match_factor,
              contribution |-> weight * match_factor,
              explanation |-> explanation,
              passed_hard_filter |-> TRUE]

\* ------------------------------------------------------------------------
\* The store (coredb profiles and orgs, configdb weight and rule sets)
\* ------------------------------------------------------------------------
VARIABLES
    orgActive,      \* orgs.is_active of every org row
    brandProfile,   \* brand_org_id -> the dict get_brand_profile builds
    eventProfile,   \* event_org_id -> the dict get_event_profile builds
    weightSets,     \* match_weight_set_id -> weights, the active rows only
    ruleSets        \* match_rule_set_id -> rules, the active rows only

\* ------------------------------------------------------------------------
\* One request (a call of get_matches_for_brand or get_matches_for_event)
\* ------------------------------------------------------------------------
VARIABLES
    fn,             \* the function called: "get_matches_for_brand",
                    \* "get_matches_for_event", "" when idle
    pc,             \* "idle", "brand_loop", "event_loop", "event_fetch", "done", "raised"
    arg,            \* the brand_org_id / event_org_id of the call, 0 when idle
    subject,        \* the profile fetched at the start of the call (`brand` in
                    \* get_matches_for_brand, `event` in get_matches_for_event)
    ids,            \* event_org_ids / brand_org_ids, the list being iterated
    idx,            \* position of the for loop in ids
    match_result,   \* the evaluation awaiting the re-fetch of its brand
    matches,        \* the list built by the loop
    ret             \* the value returned: << >> until the call returns

store == <<orgActive, brandProfile, eventProfile, weightSets, ruleSets>>
locals == <<fn, pc, arg, subject, ids, idx, match_result, matches, ret>>
vars == <<orgActive, brandProfile, eventProfile, weightSets, ruleSets,
          fn, pc, arg, subject, ids, idx, match_result, matches, ret>>

\* ------------------------------------------------------------------------
\* Store reads
\* ------------------------------------------------------------------------
get_brand_profile(brand_org_id) ==
    IF brand_org_id \in DOMAIN brandProfile THEN <<brandProfile[brand_org_id]>> ELSE << >>

get_event_profile(event_org_id) ==
    IF event_org_id \in DOMAIN eventProfile THEN <<eventProfile[event_org_id]>> ELSE << >>

\* The ids of a set in ascending order (ORDER BY org_id).
RECURSIVE OrderById(_)
OrderById(S) ==
    IF S = {} THEN << >>
    ELSE LET m == CHOOSE x \in S : \A y \in S : x <= y
         IN  <<m>> \o OrderById(S \ {m})

get_all_brand_orgs == OrderById({o \in BrandIds : orgActive[o]})

\* Mutant: the is_active condition is missing from the query.
get_all_event_orgs_any == OrderById(EventIds)

get_all_event_orgs == OrderById({o \in EventIds : orgActive[o]})

get_match_weight_set(weight_set_id) ==
    IF weight_set_id \in DOMAIN weightSets THEN <<weightSets[weight_set_id]>> ELSE << >>

get_match_rule_set(rule_set_id) ==
    IF rule_set_id \in DOMAIN ruleSets THEN <<ruleSets[rule_set_id]>> ELSE << >>

\* ------------------------------------------------------------------------
\* Pair evaluation
\* ------------------------------------------------------------------------
DEFAULT_WEIGHTS ==
    [category |-> 25, geo |-> 20, budget |-> 20, audience |-> 20, deliverables |-> 15]

DEFAULT_RULES ==
    [enforce_must_have_deliverables |-> FALSE,
     enforce_city_filter |-> FALSE,
     enforce_date_window |-> FALSE,
     enforce_budget_overlap |-> FALSE,
     min_budget_overlap_ratio |-> 100,
     allowed_date_slack_days |-> 0,
     min_audience_overlap_score |-> 100,
     budget_near_boundary_ratio |-> 10,
     footfall_partial_match_ratio |-> 80]

\* Mutant: the default weights are also used when the rule set is missing.
LoadWeightsNeedsRules(brand) ==
    LET weight_set_id == brand.default_match_weight_set_id
        weights == IF weight_set_id # 0 THEN get_match_weight_set(weight_set_id) ELSE << >>
        rule_set_id == brand.default_match_rule_set_id
        rules == IF rule_set_id # 0 THEN get_match_rule_set(rule_set_id) ELSE << >>
    IN  IF weights = << >> \/ rules = << >> THEN DEFAULT_WEIGHTS ELSE weights[1]

\* weights = get_match_weight_set(id) if id else None; DEFAULT_WEIGHTS if not weights
LoadWeights(brand) ==
    LET weight_set_id == brand.default_match_weight_set_id
        weights == IF weight_set_id # 0 THEN get_match_weight_set(weight_set_id) ELSE << >>
    IN  IF weights = << >> THEN DEFAULT_WEIGHTS ELSE weights[1]

\* Mutant: the near-boundary threshold is taken from
\* min_budget_overlap_ratio.
LoadRulesRatioFromOverlap(brand) ==
    LET rule_set_id == brand.default_match_rule_set_id
        rules == IF rule_set_id # 0 THEN get_match_rule_set(rule_set_id) ELSE << >>
        r == IF rules = << >> THEN DEFAULT_RULES ELSE rules[1]
    IN  [r EXCEPT !.budget_near_boundary_ratio = r.min_budget_overlap_ratio]

LoadRules(brand) ==
    LET rule_set_id == brand.default_match_rule_set_id
        rules == IF rule_set_id # 0 THEN get_match_rule_set(rule_set_id) ELSE << >>
    IN  IF rules = << >> THEN DEFAULT_RULES ELSE rules[1]

\* Mutant: the word is looked for in capitals, which no explanation has.
ContainsAvoidedInCapitals(explanation) ==
    \E i \in 1..Len(explanation) : explanation[i] = "Event has AVOIDED categories"

\* 'avoided' in explanation
ContainsAvoided(explanation) ==
    \E i \in 1..Len(explanation) :
        explanation[i] \in {"Event has avoided categories",
                            "Event categories are neutral (not preferred, not avoided)"}

\* name.title()
Title(name) ==
    CASE name = "geography" -> "Geography"
      [] name = "budget" -> "Budget"
      [] name = "categories" -> "Categories"
      [] name = "audience" -> "Audience"
      [] name = "deliverables" -> "Deliverables"

\* Mutant: every criterion gets its lines, whatever its match_factor.
RECURSIVE ExplanationPartsOfAll(_, _)
ExplanationPartsOfAll(breakdown, names) ==
    IF names = << >> THEN << >>
    ELSE LET score == breakdown[Head(names)]
             part == [i \in 1..Len(score.explanation) |->
                         <<IF i = 1 THEN Title(Head(names)) ELSE "", score.explanation[i]>>]
         IN  part \o ExplanationPartsOfAll(breakdown, Tail(names))

\* The lines of "\n".join(f"{name.title()}: {score['explanation']}" ...) over
\* the criteria `names` (in the dict's insertion order) whose match_factor is
\* positive: a line is <<prefix, text>>, the prefix being "" on the further
\* lines of a multi-line explanation.
RECURSIVE ExplanationParts(_, _)
ExplanationParts(breakdown, names) ==
    IF names = << >> THEN << >>
    ELSE LET score == breakdown[Head(names)]
             part == [i \in 1..Len(score.explanation) |->
                         <<IF i = 1 THEN Title(Head(names)) ELSE "", score.explanation[i]>>]
         IN  (IF score.match_factor > 0 THEN part ELSE << >>)
             \o ExplanationParts(breakdown, Tail(names))

\* Mutant: max_score is the fixed total 1.0 instead of the sum of the weights
\* of the breakdown.
BuildResultFixedMax(event, breakdown, names) ==
    LET total_score == SumSeq([i \in 1..Len(names) |-> breakdown[names[i]].contribution])
        explanation_parts == ExplanationParts(breakdown, names)
    IN  [event_org_id |-> event.event_org_id,
         event_name |-> event.event_name,
         total_score |-> RoundDiv(total_score, FactorScale),
         max_score |-> 100,
         match_percentage |-> RoundDiv(total_score * 100 * 100, 100 * FactorScale),
         breakdown |-> breakdown,
         explanation |-> IF explanation_parts # << >> THEN explanation_parts
                         ELSE <<<<"", "Minimal match">>>>]

\* The dict an evaluation returns, from the event and the breakdown (whose
\* criteria, in insertion order, are `names`).
BuildResult(event, breakdown, names) ==
    LET total_score == SumSeq([i \in 1..Len(names) |-> breakdown[names[i]].contribution])
        max_score == SumSeq([i \in 1..Len(names) |-> breakdown[names[i]].weight])
        explanation_parts == ExplanationParts(breakdown, names)
    IN  [event_org_id |-> event.event_org_id,
         event_name |-> event.event_name,
         total_score |-> RoundDiv(total_score, FactorScale),
         max_score |-> max_score,
         match_percentage |->
             IF max_score > 0
             THEN RoundDiv(total_score * 100 * 100, max_score * FactorScale)
             ELSE 0,
         breakdown |-> breakdown,
         explanation |-> IF explanation_parts # << >> THEN explanation_parts
                         ELSE <<<<"", "Minimal match">>>>]

\* Mutant: the three-criterion evaluation rejects a pair without budget
\* overlap when the rule set has enforce_budget_overlap.
evaluate_event_for_brands_enforces_budget(brand_org_id, event_org_id) ==
    LET brand_o == get_brand_profile(brand_org_id)
        event_o == get_event_profile(event_org_id)
    IN  IF brand_o = << >> \/ event_o = << >> THEN << >>
        ELSE
        LET brand == brand_o[1]
            event == event_o[1]
            weights == LoadWeights(brand)
            rules == LoadRules(brand)
            geo_score == score_geography(event.city_id, brand, weights.geo)
            budget_score ==
                score_budget(OrZero(event.package_min), OrZero(event.package_max),
                             OrZero(brand.spend_per_event_min),
                             OrZero(brand.spend_per_event_max),
                             weights.budget, rules.budget_near_boundary_ratio)
            category_score ==
                score_categories(event.categories, brand.preferred_categories,
                                 brand.avoided_categories, weights.category)
            breakdown ==
                [geography |-> geo_score, budget |-> budget_score,
                 categories |-> category_score]
        IN  IF rules.enforce_city_filter /\ ~geo_score.passed_hard_filter
            THEN << >>
            ELSE IF category_score.match_factor = 0
                    /\ ContainsAvoided(category_score.explanation)
            THEN << >>
            ELSE IF rules.enforce_budget_overlap /\ budget_score.match_factor = 0
            THEN << >>
            ELSE <<BuildResult(event, breakdown, <<"geography", "budget", "categories">>)>>

\* evaluate_event_for_brands: << >> is None.
evaluate_event_for_brands(brand_org_id, event_org_id) ==
    LET brand_o == get_brand_profile(brand_org_id)
        event_o == get_event_profile(event_org_id)
    IN  IF brand_o = << >> \/ event_o = << >> THEN << >>
        ELSE
        LET brand == brand_o[1]
            event == event_o[1]
            weights == LoadWeights(brand)
            rules == LoadRules(brand)
            geo_score == score_geography(event.city_id, brand, weights.geo)
            budget_score ==
                score_budget(OrZero(event.package_min), OrZero(event.package_max),
                             OrZero(brand.spend_per_event_min),
                             OrZero(brand.spend_per_event_max),
                             weights.budget, rules.budget_near_boundary_ratio)
            category_score ==
                score_categories(event.categories, brand.preferred_categories,
                                 brand.avoided_categories, weights.category)
            breakdown ==
                [geography |-> geo_score, budget |-> budget_score,
                 categories |-> category_score]
        IN  IF rules.enforce_city_filter /\ ~geo_score.passed_hard_filter
            THEN << >>
            ELSE IF category_score.match_factor = 0
                    /\ ContainsAvoided(category_score.explanation)
            THEN << >>
            ELSE <<BuildResult(event, breakdown, <<"geography", "budget", "categories">>)>>

\* evaluate_brand_for_events: << >> is None.
evaluate_brand_for_events(brand_org_id, event_org_id) ==
    LET brand_o == get_brand_profile(brand_org_id)
        event_o == get_event_profile(event_org_id)
    IN  IF brand_o = << >> \/ event_o = << >> THEN << >>
        ELSE
        LET brand == brand_o[1]
            event == event_o[1]
            weights == LoadWeights(brand)
            rules == LoadRules(brand)
            geo_score == score_geography(event.city_id, brand, weights.geo)
            budget_score ==
                score_budget(OrZero(event.package_min), OrZero(event.package_max),
                             OrZero(brand.spend_per_event_min),
                             OrZero(brand.spend_per_event_max),
                             weights.budget, rules.budget_near_boundary_ratio)
            category_score ==
                score_categories(event.categories, brand.preferred_categories,
                                 brand.avoided_categories, weights.category)
            audience_score ==
                score_audience_overlap(event.age_distribution, event.audience_types,
                                       event.interest_tags, brand.target_age_buckets,
                                       brand.target_audience_types,
                                       brand.target_interest_tags, weights.audience)
            deliverables_score ==
                score_deliverables(event.deliverables_offered, brand.wanted_deliverables,
                                   brand.must_have_deliverables, weights.deliverables)
            breakdown ==
                [geography |-> geo_score, budget |-> budget_score,
                 categories |-> category_score, audience |-> audience_score,
                 deliverables |-> deliverables_score]
        IN  IF rules.enforce_city_filter /\ ~geo_score.passed_hard_filter
            THEN << >>
            ELSE IF category_score.match_factor = 0
                    /\ ContainsAvoided(category_score.explanation)
            THEN << >>
            ELSE IF rules.enforce_must_have_deliverables
                    /\ ~deliverables_score.passed_hard_filter
            THEN << >>
            ELSE <<BuildResult(event, breakdown,
                               <<"geography", "budget", "categories",
                                 "audience", "deliverables">>)>>

\* ------------------------------------------------------------------------
\* matches.sort(key=lambda x: x['match_percentage'], reverse=True): a stable
\* sort, so items of equal key keep the order they were appended in.
\* ------------------------------------------------------------------------
\* Mutant: sorted ascending and then reversed, which reverses the ties.
InsertDescTiesReversed(sorted, x) ==
    LET k == Cardinality({i \in 1..Len(sorted) :
                             sorted[i].match_percentage > x.match_percentage})
    IN  SubSeq(sorted, 1, k) \o <<x>> \o SubSeq(sorted, k + 1, Len(sorted))

InsertDesc(sorted, x) ==
    LET k == Cardinality({i \in 1..Len(sorted) :
                             sorted[i].match_percentage >= x.match_percentage})
    IN  SubSeq(sorted, 1, k) \o <<x>> \o SubSeq(sorted, k + 1, Len(sorted))

RECURSIVE SortFrom(_, _)
SortFrom(sorted, rest) ==
    IF rest = << >> THEN sorted
    ELSE SortFrom(InsertDesc(sorted, Head(rest)), Tail(rest))

SortByMatchPercentageDesc(s) == SortFrom(<< >>, s)

\* ------------------------------------------------------------------------
\* get_matches_for_brand
\* ------------------------------------------------------------------------
\* Mutant: an unknown brand makes the call return None.
CallGetMatchesForBrandReturnsNone(brand_org_id) ==
    /\ pc = "idle"
    /\ LET brand == get_brand_profile(brand_org_id)
       IN  IF brand = << >>
           THEN /\ ret' = << >>
                /\ pc' = "done"
                /\ UNCHANGED <<subject, ids, idx>>
           ELSE /\ subject' = brand
                /\ ids' = get_all_event_orgs
                /\ idx' = 1
                /\ pc' = "brand_loop"
                /\ ret' = << >>
    /\ fn' = "get_matches_for_brand"
    /\ arg' = brand_org_id
    /\ UNCHANGED <<match_result, matches, store>>

\* The call up to the loop: the brand is fetched; without one the call
\* returns the empty shape, else the active event ids are listed.
CallGetMatchesForBrand(brand_org_id) ==
    /\ pc = "idle"
    /\ LET brand == get_brand_profile(brand_org_id)
       IN  IF brand = << >>
           THEN /\ ret' = <<[brand_org_id |-> brand_org_id,
                             brand_name |-> "Unknown",
                             matches |-> << >>]>>
                /\ pc' = "done"
                /\ UNCHANGED <<subject, ids, idx>>
           ELSE /\ subject' = brand
                /\ ids' = get_all_event_orgs
                /\ idx' = 1
                /\ pc' = "brand_loop"
                /\ ret' = << >>
    /\ fn' = "get_matches_for_brand"
    /\ arg' = brand_org_id
    /\ UNCHANGED <<match_result, matches, store>>

\* Mutant: the loop calls the other evaluation.
BrandLoopStepOtherEvaluation ==
    /\ pc = "brand_loop"
    /\ idx <= Len(ids)
    /\ LET result == evaluate_event_for_brands(arg, ids[idx])
       IN  matches' = IF result # << >> THEN Append(matches, result[1]) ELSE matches
    /\ idx' = idx + 1
    /\ UNCHANGED <<fn, pc, arg, subject, ids, match_result, ret, store>>

\* One iteration of `for event_org_id in event_org_ids`.
BrandLoopStep ==
    /\ pc = "brand_loop"
    /\ idx <= Len(ids)
    /\ LET result == evaluate_brand_for_events(arg, ids[idx])
       IN  matches' = IF result # << >> THEN Append(matches, result[1]) ELSE matches
    /\ idx' = idx + 1
    /\ UNCHANGED <<fn, pc, arg, subject, ids, match_result, ret, store>>

\* Mutant: on return the call writes the default weights into the store
\* under the brand's weight set id when that id does not resolve.
BrandLoopReturnStoresDefaults ==
    /\ pc = "brand_loop"
    /\ idx > Len(ids)
    /\ ret' = <<[brand_org_id |-> subject[1].brand_org_id,
                 brand_name |-> subject[1].brand_name,
                 matches |-> SortByMatchPercentageDesc(matches)]>>
    /\ pc' = "done"
    /\ weightSets' =
          IF /\ subject[1].default_match_weight_set_id # 0
             /\ subject[1].default_match_weight_set_id \notin DOMAIN weightSets
          THEN weightSets @@ (subject[1].default_match_weight_set_id :> DEFAULT_WEIGHTS)
          ELSE weightSets
    /\ UNCHANGED <<fn, arg, subject, ids, idx, match_result, matches,
                   orgActive, brandProfile, eventProfile, ruleSets>>

\* After the loop: sort and return.
\* Mutant: the brand is read again for the id and the name of the result,
\* which raises when the profile is gone.
BrandLoopReturnRereadsBrand ==
    /\ pc = "brand_loop"
    /\ idx > Len(ids)
    /\ LET brand == get_brand_profile(arg)
       IN  IF brand = << >>
           THEN /\ pc' = "raised"
                /\ ret' = << >>
           ELSE /\ pc' = "done"
                /\ ret' = <<[brand_org_id |-> brand[1].brand_org_id,
                             brand_name |-> brand[1].brand_name,
                             matches |-> SortByMatchPercentageDesc(matches)]>>
    /\ UNCHANGED <<fn, arg, subject, ids, idx, match_result, matches, store>>

BrandLoopReturn ==
    /\ pc = "brand_loop"
    /\ idx > Len(ids)
    /\ ret' = <<[brand_org_id |-> subject[1].brand_org_id,
                 brand_name |-> subject[1].brand_name,
                 matches |-> SortByMatchPercentageDesc(matches)]>>
    /\ pc' = "done"
    /\ UNCHANGED <<fn, arg, subject, ids, idx, match_result, matches, store>>

\* ------------------------------------------------------------------------
\* get_matches_for_event
\* ------------------------------------------------------------------------
CallGetMatchesForEvent(event_org_id) ==
    /\ pc = "idle"
    /\ LET event == get_event_profile(event_org_id)
       IN  IF event = << >>
           THEN /\ ret' = <<[event_org_id |-> event_org_id,
                             event_name |-> "Unknown",
                             matches |-> << >>]>>
                /\ pc' = "done"
                /\ UNCHANGED <<subject, ids, idx>>
           ELSE /\ subject' = event
                /\ ids' = get_all_brand_orgs
                /\ idx' = 1
                /\ pc' = "event_loop"
                /\ ret' = << >>
    /\ fn' = "get_matches_for_event"
    /\ arg' = event_org_id
    /\ UNCHANGED <<match_result, matches, store>>

\* Mutant: the loop calls the other evaluation.
EventLoopStepOtherEvaluation ==
    /\ pc = "event_loop"
    /\ idx <= Len(ids)
    /\ LET result == evaluate_brand_for_events(ids[idx], arg)
       IN  IF result = << >>
           THEN /\ idx' = idx + 1
                /\ UNCHANGED <<pc, match_result>>
           ELSE /\ match_result' = result
                /\ pc' = "event_fetch"
                /\ UNCHANGED idx
    /\ UNCHANGED <<fn, arg, subject, ids, matches, ret, store>>

\* One iteration of `for brand_org_id in brand_org_ids`, up to the re-fetch
\* of the brand: a None evaluation goes on to the next id.
EventLoopStep ==
    /\ pc = "event_loop"
    /\ idx <= Len(ids)
    /\ LET result == evaluate_event_for_brands(ids[idx], arg)
       IN  IF result = << >>
           THEN /\ idx' = idx + 1
                /\ UNCHANGED <<pc, match_result>>
           ELSE /\ match_result' = result
                /\ pc' = "event_fetch"
                /\ UNCHANGED idx
    /\ UNCHANGED <<fn, arg, subject, ids, matches, ret, store>>

\* Mutant: when the brand is gone the item is emitted under the name
\* "Unknown".
EventLoopFetchEmitsUnknown ==
    /\ pc = "event_fetch"
    /\ LET brand == get_brand_profile(ids[idx])
       IN  matches' =
               Append(matches,
                      [brand_org_id |-> ids[idx],
                       brand_name |-> IF brand = << >> THEN "Unknown" ELSE brand[1].brand_name,
                       total_score |-> match_result[1].total_score,
                       max_score |-> match_result[1].max_score,
                       match_percentage |-> match_result[1].match_percentage,
                       breakdown |-> match_result[1].breakdown,
                       explanation |-> match_result[1].explanation])
    /\ match_result' = << >>
    /\ idx' = idx + 1
    /\ pc' = "event_loop"
    /\ UNCHANGED <<fn, arg, subject, ids, ret, store>>

\* The rest of the iteration: the brand is fetched again for its name; the
\* item is skipped (`continue`) when the brand is gone.
EventLoopFetch ==
    /\ pc = "event_fetch"
    /\ LET brand == get_brand_profile(ids[idx])
       IN  matches' =
               IF brand = << >> THEN matches
               ELSE Append(matches,
                           [brand_org_id |-> ids[idx],
                            brand_name |-> brand[1].brand_name,
                            total_score |-> match_result[1].total_score,
                            max_score |-> match_result[1].max_score,
                            match_percentage |-> match_result[1].match_percentage,
                            breakdown |-> match_result[1].breakdown,
                            explanation |-> match_result[1].explanation])
    /\ match_result' = << >>
    /\ idx' = idx + 1
    /\ pc' = "event_loop"
    /\ UNCHANGED <<fn, arg, subject, ids, ret, store>>

EventLoopReturn ==
    /\ pc = "event_loop"
    /\ idx > Len(ids)
    /\ ret' = <<[event_org_id |-> subject[1].event_org_id,
                 event_name |-> subject[1].event_name,
                 matches |-> SortByMatchPercentageDesc(matches)]>>
    /\ pc' = "done"
    /\ UNCHANGED <<fn, arg, subject, ids, idx, match_result, matches, store>>

\* ------------------------------------------------------------------------
\* A store read of an iteration raises (psycopg: the pool times out, the
\* connection drops).  Nothing in matching.py catches it: it leaves the loop
\* and the call, whose locals are lost; the caller gets the exception.
\* ------------------------------------------------------------------------
FetchRaises ==
    /\ \/ pc \in {"brand_loop", "event_loop"} /\ idx <= Len(ids)
       \/ pc = "event_fetch"
    /\ pc' = "raised"
    /\ subject' = << >>
    /\ ids' = << >>
    /\ idx' = 0
    /\ match_result' = << >>
    /\ matches' = << >>
    /\ ret' = << >>
    /\ UNCHANGED <<fn, arg, store>>

\* Mutant: the list of matches outlives the call (a list that is never
\* emptied), so the next call appends to it.
FinishKeepsMatches ==
    /\ pc \in {"done", "raised"}
    /\ pc' = "idle"
    /\ fn' = ""
    /\ arg' = 0
    /\ subject' = << >>
    /\ ids' = << >>
    /\ idx' = 0
    /\ match_result' = << >>
    /\ ret' = << >>
    /\ UNCHANGED <<matches, store>>

\* The caller has the outcome; the next request may start.
Finish ==
    /\ pc \in {"done", "raised"}
    /\ pc' = "idle"
    /\ fn' = ""
    /\ arg' = 0
    /\ subject' = << >>
    /\ ids' = << >>
    /\ idx' = 0
    /\ match_result' = << >>
    /\ matches' = << >>
    /\ ret' = << >>
    /\ UNCHANGED store

\* ------------------------------------------------------------------------
\* Initial stores
\* ------------------------------------------------------------------------
OrgName(org_id) == "org-" \o ToString(org_id)

\* configdb.match_weight_sets: 1 weighs geography first, 2 weighs nothing,
\* 3 weighs only the criteria of the five-criterion evaluation.  Any other
\* id is missing or inactive.
InitWeightSets ==
    (1 :> [category |-> 20, geo |-> 40, budget |-> 15, audience |-> 15, deliverables |-> 10]) @@
    (2 :> [category |-> 0, geo |-> 0, budget |-> 0, audience |-> 0, deliverables |-> 0]) @@
    (3 :> [category |-> 0, geo |-> 0, budget |-> 0, audience |-> 40, deliverables |-> 10])

\* configdb.match_rule_sets: 1 enforces both hard filters, 2 only the
\* must-have deliverables.  Any other id is missing or inactive.
InitRuleSets ==
    (1 :> [enforce_must_have_deliverables |-> TRUE,
           enforce_city_filter |-> TRUE,
           enforce_date_window |-> TRUE,
           enforce_budget_overlap |-> TRUE,
           min_budget_overlap_ratio |-> 20,
           allowed_date_slack_days |-> 0,
           min_audience_overlap_score |-> 50,
           budget_near_boundary_ratio |-> 10,
           footfall_partial_match_ratio |-> 80]) @@
    (2 :> [enforce_must_have_deliverables |-> TRUE,
           enforce_city_filter |-> FALSE,
           enforce_date_window |-> TRUE,
           enforce_budget_overlap |-> TRUE,
           min_budget_overlap_ratio |-> 10,
           allowed_date_slack_days |-> 0,
           min_audience_overlap_score |-> 30,
           budget_near_boundary_ratio |-> 25,
           footfall_partial_match_ratio |-> 80])

\* The brand profiles a store may hold (all but the id and the name).
BrandTemplates ==
    { \* default configuration, local focus, prefers 1 and avoids 2
      [default_match_weight_set_id |-> 0, default_match_rule_set_id |-> 0,
       geographic_focus_type |-> "local",
       target_cities |-> {1}, target_states |-> {}, target_countries |-> {},
       spend_per_event_min |-> <<20>>, spend_per_event_max |-> <<40>>,
       preferred_categories |-> {1}, avoided_categories |-> {2},
       wanted_deliverables |-> {1, 2}, must_have_deliverables |-> {},
       target_age_buckets |-> {1}, target_audience_types |-> {1},
       target_interest_tags |-> {}],
      \* both hard filters enforced, state focus, a must-have and nothing wanted
      [default_match_weight_set_id |-> 1, default_match_rule_set_id |-> 1,
       geographic_focus_type |-> "state",
       target_cities |-> {}, target_states |-> {1}, target_countries |-> {},
       spend_per_event_min |-> <<10>>, spend_per_event_max |-> <<20>>,
       preferred_categories |-> {}, avoided_categories |-> {},
       wanted_deliverables |-> {}, must_have_deliverables |-> {2},
       target_age_buckets |-> {}, target_audience_types |-> {},
       target_interest_tags |-> {}],
      \* a weight set id that does not resolve, must-have enforced, national
      \* focus, no budget
      [default_match_weight_set_id |-> 4, default_match_rule_set_id |-> 2,
       geographic_focus_type |-> "national",
       target_cities |-> {}, target_states |-> {}, target_countries |-> {1},
       spend_per_event_min |-> << >>, spend_per_event_max |-> << >>,
       preferred_categories |-> {2}, avoided_categories |-> {1},
       wanted_deliverables |-> {1}, must_have_deliverables |-> {2},
       target_age_buckets |-> {2}, target_audience_types |-> {2},
       target_interest_tags |-> {1}],
      \* all weights zero, must-have enforced, no focus type
      [default_match_weight_set_id |-> 2, default_match_rule_set_id |-> 2,
       geographic_focus_type |-> "None",
       target_cities |-> {1, 2}, target_states |-> {}, target_countries |-> {},
       spend_per_event_min |-> <<30>>, spend_per_event_max |-> <<50>>,
       preferred_categories |-> {1, 2}, avoided_categories |-> {},
       wanted_deliverables |-> {2}, must_have_deliverables |-> {1},
       target_age_buckets |-> {1, 2}, target_audience_types |-> {},
       target_interest_tags |-> {2}],
      \* only audience and deliverables weigh, a rule set id that does not
      \* resolve, local focus
      [default_match_weight_set_id |-> 3, default_match_rule_set_id |-> 3,
       geographic_focus_type |-> "local",
       target_cities |-> {2, 3}, target_states |-> {}, target_countries |-> {},
       spend_per_event_min |-> <<60>>, spend_per_event_max |-> <<90>>,
       preferred_categories |-> {}, avoided_categories |-> {},
       wanted_deliverables |-> {2}, must_have_deliverables |-> {},
       target_age_buckets |-> {1}, target_audience_types |-> {1, 2},
       target_interest_tags |-> {1, 2}] }

\* The event profiles a store may hold (all but the id and the name).
EventTemplates ==
    { [city_id |-> 1, package_min |-> <<30>>, package_max |-> <<50>>,
       categories |-> {1}, deliverables_offered |-> {1, 2},
       age_distribution |-> {1}, audience_types |-> {2}, interest_tags |-> {1}],
      \* nothing filled in
      [city_id |-> 0, package_min |-> << >>, package_max |-> << >>,
       categories |-> {}, deliverables_offered |-> {},
       age_distribution |-> {}, audience_types |-> {}, interest_tags |-> {}],
      [city_id |-> 2, package_min |-> <<100>>, package_max |-> <<120>>,
       categories |-> {1, 2}, deliverables_offered |-> {1},
       age_distribution |-> {2}, audience_types |-> {1}, interest_tags |-> {}],
      \* a city without a state, a budget just above [20, 40]
      [city_id |-> 3, package_min |-> <<41>>, package_max |-> <<45>>,
       categories |-> {2}, deliverables_offered |-> {2},
       age_distribution |-> {1, 2}, audience_types |-> {}, interest_tags |-> {2}],
      \* a city that does not resolve
      [city_id |-> 4, package_min |-> <<30>>, package_max |-> <<50>>,
       categories |-> {1}, deliverables_offered |-> {1},
       age_distribution |-> {}, audience_types |-> {1}, interest_tags |-> {1}] }

MkBrand(brand_org_id, t) ==
    [brand_org_id |-> brand_org_id, brand_name |-> OrgName(brand_org_id)] @@ t

MkEvent(event_org_id, t) ==
    [event_org_id |-> event_org_id, event_name |-> OrgName(event_org_id)] @@ t

\* A store with any brands and at most one event profile, or any events and
\* at most one brand profile (a batch only ever reads one profile of its own
\* side); at most one org row is inactive.
InitStore ==
    /\ \E B \in SUBSET BrandIds, E \in SUBSET EventIds :
          /\ Cardinality(B) <= 1 \/ Cardinality(E) <= 1
          /\ \E tb \in [B -> BrandTemplates], te \in [E -> EventTemplates] :
                /\ brandProfile = [b \in B |-> MkBrand(b, tb[b])]
                /\ eventProfile = [e \in E |-> MkEvent(e, te[e])]
    /\ orgActive \in {f \in [OrgIds -> BOOLEAN] :
                         Cardinality({o \in OrgIds : ~f[o]}) <= 1}
    /\ weightSets = InitWeightSets
    /\ ruleSets = InitRuleSets

Init ==
    /\ InitStore
    /\ pc = "idle"
    /\ fn = ""
    /\ arg = 0
    /\ subject = << >>
    /\ ids = << >>
    /\ idx = 0
    /\ match_result = << >>
    /\ matches = << >>
    /\ ret = << >>

Next ==
    \/ \E brand_org_id \in OrgIds : CallGetMatchesForBrand(brand_org_id)
    \/ BrandLoopStep
    \/ BrandLoopReturn
    \/ \E event_org_id \in OrgIds : CallGetMatchesForEvent(event_org_id)
    \/ EventLoopStep
    \/ EventLoopFetch
    \/ EventLoopReturn
    \/ FetchRaises
    \/ Finish

Spec == Init /\ [][Next]_vars

\* ------------------------------------------------------------------------
\* Properties
\* ------------------------------------------------------------------------
\* The call in progress has returned a result.
Returned == pc = "done" /\ ret # << >>

\* The id of the counterpart an item of a matches list stands for.
ItemId(item) ==
    IF fn = "get_matches_for_brand" THEN item.event_org_id ELSE item.brand_org_id

\* C1: a call of get_matches_for_brand with an id that has no brand profile
\* does not raise and never enters the loop (no event is evaluated): it
\* returns the id, the name "Unknown" and an empty matches list; and
\* get_matches_for_event does the same for an id without an event profile.
C1_UnknownIdReturnsEmptyShape ==
    /\ (fn = "get_matches_for_brand" /\ arg \notin DOMAIN brandProfile)
          => /\ pc = "done"
             /\ ret = <<[brand_org_id |-> arg, brand_name |-> "Unknown", matches |-> << >>]>>
             /\ idx = 0 /\ ids = << >> /\ matches = << >>
    /\ (fn = "get_matches_for_event" /\ arg \notin DOMAIN eventProfile)
          => /\ pc = "done"
             /\ ret = <<[event_org_id |-> arg, event_name |-> "Unknown", matches |-> << >>]>>
             /\ idx = 0 /\ ids = << >> /\ matches = << >>

\* C1 witness: get_matches_for_brand has returned for an unknown brand id
\* while the store holds an active event with a profile.
C1_Witness ==
    /\ Returned
    /\ fn = "get_matches_for_brand"
    /\ arg \notin DOMAIN brandProfile
    /\ \E e \in DOMAIN eventProfile : orgActive[e]

\* C2: the matches list a call returns is ordered by match_percentage,
\* non-increasing, and two items of equal match_percentage are in ascending
\* order of counterpart id.
C2_MatchesSortedTiesById ==
    Returned =>
        LET m == ret[1].matches
        IN  \A i, j \in 1..Len(m) :
                i < j => /\ m[i].match_percentage >= m[j].match_percentage
                         /\ m[i].match_percentage = m[j].match_percentage
                               => ItemId(m[i]) < ItemId(m[j])

\* C2 witness: a returned list of several items that the sort has reordered.
C2_Witness ==
    /\ Returned
    /\ Len(ret[1].matches) >= 2
    /\ ret[1].matches # matches

\* C3 (as claimed): a store fetch that fails during one pair's evaluation
\* never aborts the call: no call ends with the exception.
C3_FetchFailureNeverAborts == pc # "raised"

ThreeCriteria == {"geography", "budget", "categories"}

FiveCriteria == {"geography", "budget", "categories", "audience", "deliverables"}

\* The brand and the event of an item of the returned matches list.
ItemBrand(item) ==
    IF fn = "get_matches_for_brand" THEN brandProfile[arg]
    ELSE brandProfile[item.brand_org_id]

ItemEvent(item) ==
    IF fn = "get_matches_for_brand" THEN eventProfile[item.event_org_id]
    ELSE eventProfile[arg]

\* The items of the returned matches list, as a set.
ReturnedItems == {ret[1].matches[i] : i \in 1..Len(ret[1].matches)}

\* The brand declares a must-have deliverable that the event does not offer.
MissesMustHave(brand, event) ==
    brand.must_have_deliverables \ event.deliverables_offered # {}

\* The event has a category the brand avoids.
HitsAvoided(brand, event) ==
    event.categories \cap brand.avoided_categories # {}

\* The geography score of the pair, with the brand's weight.
GeoScoreOf(brand, event) ==
    score_geography(event.city_id, brand, LoadWeights(brand).geo)

\* The deliverables score of the pair, with the brand's weight.
DeliverablesScoreOf(brand, event) ==
    score_deliverables(event.deliverables_offered, brand.wanted_deliverables,
                       brand.must_have_deliverables, LoadWeights(brand).deliverables)

C6_AvoidedCategoryRejects ==
    /\ pc = "idle" =>
          \A b \in DOMAIN brandProfile, e \in DOMAIN eventProfile :
              HitsAvoided(brandProfile[b], eventProfile[e]) =>
                  /\ score_categories(eventProfile[e].categories,
                                      brandProfile[b].preferred_categories,
                                      brandProfile[b].avoided_categories,
                                      LoadWeights(brandProfile[b]).category).match_factor = 0
                  /\ evaluate_brand_for_events(b, e) = << >>
                  /\ evaluate_event_for_brands(b, e) = << >>
    /\ Returned =>
          \A item \in ReturnedItems : ~HitsAvoided(ItemBrand(item), ItemEvent(item))

\* C6 witness: get_matches_for_brand has returned, having evaluated an
\* active event that has both a preferred and an avoided category, for a
\* brand whose rule set enforces nothing.
C6_Witness ==
    /\ Returned
    /\ fn = "get_matches_for_brand"
    /\ arg \in DOMAIN brandProfile
    /\ ~LoadRules(brandProfile[arg]).enforce_city_filter
    /\ ~LoadRules(brandProfile[arg]).enforce_must_have_deliverables
    /\ \E i \in 1..Len(ids) :
          /\ ids[i] \in DOMAIN eventProfile
          /\ HitsAvoided(brandProfile[arg], eventProfile[ids[i]])
          /\ eventProfile[ids[i]].categories
                \cap brandProfile[arg].preferred_categories # {}

RECURSIVE SumOver(_, _, _)
SumOver(bd, S, field) ==
    IF S = {} THEN 0
    ELSE LET n == CHOOSE x \in S : TRUE
         IN  bd[n][field] + SumOver(bd, S \ {n}, field)

\* C8: the matches list get_matches_for_brand(b) returns has exactly one
\* item for each active event id whose evaluation with b gives a result, and
\* no other item (none for a rejected, inactive or unknown event);
\* get_matches_for_event(e) likewise has exactly one item per active brand
\* id whose evaluation with e gives a result.
C8_OneItemPerAcceptedActiveCounterpart ==
    /\ (Returned /\ fn = "get_matches_for_brand") =>
          LET m == ret[1].matches
              accepted == {e \in EventIds :
                              orgActive[e] /\ evaluate_brand_for_events(arg, e) # << >>}
          IN  /\ {m[i].event_org_id : i \in 1..Len(m)} = accepted
              /\ Len(m) = Cardinality(accepted)
    /\ (Returned /\ fn = "get_matches_for_event") =>
          LET m == ret[1].matches
              accepted == {b \in BrandIds :
                              orgActive[b] /\ evaluate_event_for_brands(b, arg) # << >>}
          IN  /\ {m[i].brand_org_id : i \in 1..Len(m)} = accepted
              /\ Len(m) = Cardinality(accepted)

\* C8 witness: get_matches_for_brand has returned one item while the store
\* also holds an inactive event whose evaluation would give a result.
C8_Witness ==
    /\ Returned
    /\ fn = "get_matches_for_brand"
    /\ Len(ret[1].matches) = 1
    /\ \E e \in DOMAIN eventProfile :
          ~orgActive[e] /\ evaluate_brand_for_events(arg, e) # << >>

\* C9: every returned item with max_score > 0 has a match_percentage
\* between 0 and 100 and a total_score between 0 and max_score, in both
\* directions (the weights are non-negative).
C9_PercentageWithinBounds ==
    Returned =>
        \A item \in ReturnedItems :
            item.max_score > 0 =>
                /\ 0 <= item.match_percentage /\ item.match_percentage <= 100 * 100
                /\ 0 <= item.total_score /\ item.total_score <= item.max_score

\* C9 witness: a returned item whose match_percentage is strictly between 0
\* and 100.
C9_Witness ==
    /\ Returned
    /\ \E item \in ReturnedItems :
          /\ item.max_score > 0
          /\ 0 < item.match_percentage
          /\ item.match_percentage < 100 * 100

\* C10: in every returned item, total_score is the (rounded) sum of the
\* contributions and max_score the sum of the weights of exactly the
\* criteria of its breakdown, and match_percentage is the (rounded)
\* 100 * sum of contributions / sum of weights when that sum of weights is
\* positive, 0 otherwise.
C10_ScoresAreSumsOverBreakdown ==
    Returned =>
        \A item \in ReturnedItems :
            LET bd == item.breakdown
                total == SumOver(bd, DOMAIN bd, "contribution")
                max == SumOver(bd, DOMAIN bd, "weight")
            IN  /\ \A n \in DOMAIN bd :
                      bd[n].contribution = bd[n].weight * bd[n].match_factor
                /\ item.total_score = RoundDiv(total, FactorScale)
                /\ item.max_score = max
                /\ item.match_percentage =
                      IF max > 0 THEN RoundDiv(total * 100 * 100, max * FactorScale)
                      ELSE 0

\* C10 witness: a returned item whose weights are all zero: max_score is 0
\* and match_percentage is 0.
C10_Witness ==
    /\ Returned
    /\ \E item \in ReturnedItems :
          item.max_score = 0 /\ item.match_percentage = 0

\* A budget bound is missing on the event or on the brand.
BudgetMissing(brand, event) ==
    \/ event.package_min = << >> \/ event.package_max = << >>
    \/ brand.spend_per_event_min = << >> \/ brand.spend_per_event_max = << >>

\* One side has no audience data at all.
AudienceMissing(brand, event) ==
    \/ /\ event.age_distribution = {}
       /\ event.audience_types = {}
       /\ event.interest_tags = {}
    \/ /\ brand.target_age_buckets = {}
       /\ brand.target_audience_types = {}
       /\ brand.target_interest_tags = {}

\* C11 (as claimed): in every returned item, a criterion whose data is
\* missing has the neutral factor 0.5: the budget when a budget bound of the
\* event or of the brand is missing, the categories when the event has none,
\* the audience when one side has no audience data.
C11_MissingDataScoresNeutral ==
    Returned =>
        \A item \in ReturnedItems :
            LET brand == ItemBrand(item)
                event == ItemEvent(item)
            IN  /\ BudgetMissing(brand, event)
                      => item.breakdown.budget.match_factor = FactorScale \div 2
                /\ event.categories = {}
                      => item.breakdown.categories.match_factor = FactorScale \div 2
                /\ ("audience" \in DOMAIN item.breakdown /\ AudienceMissing(brand, event))
                      => item.breakdown.audience.match_factor = FactorScale \div 2

\* ------------------------------------------------------------------------
\* The scoring functions on their own: one call of one function, its
\* arguments (in `arg`, as a tuple) drawn from bounded sets, its value in
\* `ret`.  The store plays no part beyond the reference geography.
\* ------------------------------------------------------------------------
MaxCityId == 4
MaxStateId == 2
MaxCountryId == 1

\* brand_profiles.geographic_focus_type: the three focus types, NULL
\* ("None") and a value that is none of them.
FocusTypes == {"local", "state", "national", "None", "regional"}

\* The part of a brand profile check_geographic_match reads.
GeoBrandProfiles ==
    [geographic_focus_type : FocusTypes,
     target_cities : SUBSET (1..MaxCityId),
     target_states : SUBSET (1..MaxStateId),
     target_countries : SUBSET (1..MaxCountryId)]

NoProfiles ==
    /\ orgActive = [o \in OrgIds |-> TRUE]
    /\ brandProfile = << >>
    /\ eventProfile = << >>
    /\ weightSets = InitWeightSets
    /\ ruleSets = InitRuleSets

InitCheckGeographicMatch ==
    /\ fn = "check_geographic_match"
    /\ arg \in (0..MaxCityId) \X GeoBrandProfiles

ApplyCheckGeographicMatch ==
    /\ pc = "idle"
    /\ fn = "check_geographic_match"
    /\ ret' = <<check_geographic_match(arg[1], arg[2])>>
    /\ pc' = "done"
    /\ UNCHANGED <<fn, arg, subject, ids, idx, match_result, matches, store>>

MaxBudget == 4

\* A budget bound: None or an amount.
OptBudgets == {<< >>} \cup {<<v>> : v \in 0..MaxBudget}

\* budget_near_boundary_ratio values, in hundredths: none, the default 0.1,
\* a quarter and the whole of the larger range.
BoundaryRatios == {0, 10, 25, 100}

\* The event bounds may be None; the brand bounds are amounts, as every
\* caller passes them (`or 0`).
InitScoreBudget ==
    /\ fn = "score_budget"
    /\ arg \in OptBudgets \X OptBudgets
                \X {<<v>> : v \in 0..MaxBudget} \X {<<v>> : v \in 0..MaxBudget}
                \X {0, 20} \X BoundaryRatios

ApplyScoreBudget ==
    /\ pc = "idle"
    /\ fn = "score_budget"
    /\ ret' = <<score_budget(arg[1], arg[2], arg[3], arg[4], arg[5], arg[6])>>
    /\ pc' = "done"
    /\ UNCHANGED <<fn, arg, subject, ids, idx, match_result, matches, store>>

MaxAudienceId == 2

\* The ids of one audience dimension (age buckets, audience types, interest
\* tags).
AudienceIds == 1..MaxAudienceId

InitScoreAudienceOverlap ==
    /\ fn = "score_audience_overlap"
    /\ arg \in (SUBSET AudienceIds) \X (SUBSET AudienceIds) \X (SUBSET AudienceIds)
                \X (SUBSET AudienceIds) \X (SUBSET AudienceIds) \X (SUBSET AudienceIds)
                \X {20}

ApplyScoreAudienceOverlap ==
    /\ pc = "idle"
    /\ fn = "score_audience_overlap"
    /\ ret' = <<score_audience_overlap(arg[1], arg[2], arg[3], arg[4], arg[5], arg[6], arg[7])>>
    /\ pc' = "done"
    /\ UNCHANGED <<fn, arg, subject, ids, idx, match_result, matches, store>>

\* The deliverable_type ids the brand lists draw on, and those an event may
\* offer: one more, so that an event can offer a deliverable next to every
\* one the brand names. A share of up to NDeliverables + 1 wanted
\* deliverables is a whole number of units of 1/FactorScale.
BrandDeliverableIds == 1..(NDeliverables + 1)

OfferedDeliverableIds == 1..(NDeliverables + 2)

InitScoreDeliverables ==
    /\ fn = "score_deliverables"
    /\ arg \in (SUBSET OfferedDeliverableIds) \X (SUBSET BrandDeliverableIds)
                \X (SUBSET BrandDeliverableIds) \X {10}

ApplyScoreDeliverables ==
    /\ pc = "idle"
    /\ fn = "score_deliverables"
    /\ ret' = <<score_deliverables(arg[1], arg[2], arg[3], arg[4])>>
    /\ pc' = "done"
    /\ UNCHANGED <<fn, arg, subject, ids, idx, match_result, matches, store>>

InitScorers ==
    /\ NoProfiles
    /\ pc = "idle"
    /\ subject = << >>
    /\ ids = << >>
    /\ idx = 0
    /\ match_result = << >>
    /\ matches = << >>
    /\ ret = << >>
    /\ \/ InitCheckGeographicMatch
       \/ InitScoreBudget
       \/ InitScoreAudienceOverlap
       \/ InitScoreDeliverables

NextScorers ==
    \/ ApplyCheckGeographicMatch
    \/ ApplyScoreBudget
    \/ ApplyScoreAudienceOverlap
    \/ ApplyScoreDeliverables

SpecScorers == InitScorers /\ [][NextScorers]_vars

\* check_geographic_match has returned; its arguments.
GeoReturned == pc = "done" /\ fn = "check_geographic_match"

\* The state and the country the event's city resolves to, 0 when the city
\* does not resolve or has none.
ResolvedStateId(city_id) ==
    IF resolve_city_geography(city_id) = << >> THEN 0
    ELSE resolve_city_geography(city_id)[1].state_id

ResolvedCountryId(city_id) ==
    IF resolve_city_geography(city_id) = << >> THEN 0
    ELSE resolve_city_geography(city_id)[1].country_id

\* C12 (as claimed): check_geographic_match returns matches = true exactly
\* when the event's id at the brand's focus level is in the target set of
\* that level: the city id for local, the resolved state id for state, the
\* resolved country id for national.
C12_GeoMatchIffInTargetSet ==
    GeoReturned =>
        LET city == arg[1]
            brand == arg[2]
            focus == brand.geographic_focus_type
        IN  ret[1].matches <=>
                \/ focus = "local" /\ city \in brand.target_cities
                \/ focus = "state" /\ ResolvedStateId(city) \in brand.target_states
                \/ focus = "national" /\ ResolvedCountryId(city) \in brand.target_countries

\* C12 (amended): check_geographic_match returns matches = true exactly when
\* the event's city resolves and its id at the brand's focus level is in the
\* target set of that level (with match_level city, state or country); a
\* city that does not resolve never matches, not even a local brand that
\* has it among its target cities.
C12_GeoMatchIffResolvedAndInTargetSet ==
    GeoReturned =>
        LET city == arg[1]
            brand == arg[2]
            focus == brand.geographic_focus_type
            resolved == resolve_city_geography(city) # << >>
        IN  /\ ret[1].matches <=>
                  /\ resolved
                  /\ \/ focus = "local" /\ city \in brand.target_cities
                     \/ focus = "state" /\ ResolvedStateId(city) \in brand.target_states
                     \/ focus = "national"
                           /\ ResolvedCountryId(city) \in brand.target_countries
            /\ ret[1].matches =>
                  ret[1].match_level = (CASE focus = "local" -> "city"
                                          [] focus = "state" -> "state"
                                          [] focus = "national" -> "country")

\* C12 witness: check_geographic_match has returned no match for a local
\* brand whose target cities hold the event's city, which does not resolve.
C12_Witness ==
    /\ GeoReturned
    /\ arg[2].geographic_focus_type = "local"
    /\ arg[1] \in arg[2].target_cities
    /\ resolve_city_geography(arg[1]) = << >>
    /\ ~ret[1].matches

\* C20: check_geographic_match returns (it does not raise) matches = false,
\* no match level and a reason, when the event's city does not resolve, when
\* the resolved city has no state for a state brand or no country for a
\* national brand, and when the focus type is neither local, state nor
\* national.
C20_GeoNoMatchWithReason ==
    GeoReturned =>
        LET city == arg[1]
            focus == arg[2].geographic_focus_type
        IN  (\/ resolve_city_geography(city) = << >>
             \/ focus = "state" /\ ResolvedStateId(city) = 0
             \/ focus = "national" /\ ResolvedCountryId(city) = 0
             \/ focus \notin {"local", "state", "national"})
            => /\ DOMAIN ret[1] = {"matches", "match_level", "explanation"}
               /\ ~ret[1].matches
               /\ ret[1].match_level = "None"
               /\ ret[1].explanation # << >>

\* C20 witness: check_geographic_match has returned for a state brand with
\* target states and an event whose city resolves but has no state.
C20_Witness ==
    /\ GeoReturned
    /\ arg[2].geographic_focus_type = "state"
    /\ arg[2].target_states # {}
    /\ resolve_city_geography(arg[1]) # << >>
    /\ ResolvedStateId(arg[1]) = 0
    /\ ~ret[1].matches

\* score_budget has returned for an event range and a brand range that are
\* both given.
BudgetReturned ==
    /\ pc = "done"
    /\ fn = "score_budget"
    /\ arg[1] # << >>
    /\ arg[2] # << >>

\* C15: score_budget is symmetric in the two ranges: with the event range
\* and the brand range swapped, the ranges overlap or not as before, the gap
\* is the same and so is the match_factor, for every near-boundary ratio.
C15_BudgetSymmetric ==
    BudgetReturned =>
        LET emin == arg[1][1]
            emax == arg[2][1]
            bmin == arg[3][1]
            bmax == arg[4][1]
            swapped == score_budget(arg[3], arg[4], arg[1], arg[2], arg[5], arg[6])
        IN  /\ BudgetOverlaps(emin, emax, bmin, bmax) = BudgetOverlaps(bmin, bmax, emin, emax)
            /\ BudgetGap(emin, emax, bmin, bmax) = BudgetGap(bmin, bmax, emin, emax)
            /\ ret[1].match_factor = swapped.match_factor

\* C15 witness: score_budget has returned the partial factor for an event
\* range that lies below the brand range and is narrower than it.
C15_Witness ==
    /\ BudgetReturned
    /\ arg[1][1] <= arg[2][1]
    /\ arg[2][1] < arg[3][1]
    /\ arg[3][1] <= arg[4][1]
    /\ arg[2][1] - arg[1][1] < arg[4][1] - arg[3][1]
    /\ ret[1].match_factor = FactorScale \div 2

AudienceReturned == pc = "done" /\ fn = "score_audience_overlap"

\* The match_factor of score_audience_overlap for the arguments `a` with the
\* id x added to the event's dimension dim (1 age, 2 types, 3 tags).
FactorWithAdded(a, dim, x) ==
    score_audience_overlap(IF dim = 1 THEN a[1] \cup {x} ELSE a[1],
                           IF dim = 2 THEN a[2] \cup {x} ELSE a[2],
                           IF dim = 3 THEN a[3] \cup {x} ELSE a[3],
                           a[4], a[5], a[6], a[7]).match_factor

\* C16: score_audience_overlap is monotonic: adding to the event, in one
\* dimension, an id the brand targets in that dimension never decreases the
\* match_factor, all else fixed.
C16_AudienceMonotonic ==
    AudienceReturned =>
        \A dim \in 1..3 : \A x \in arg[dim + 3] :
            FactorWithAdded(arg, dim, x) >= ret[1].match_factor

\* C16 witness: score_audience_overlap has returned 0 for an event without
\* age data whose audience types miss the brand's, and a shared age bucket
\* added to the event raises the factor.
C16_Witness ==
    /\ AudienceReturned
    /\ arg[1] = {}
    /\ arg[2] # {} /\ arg[5] # {} /\ arg[2] \cap arg[5] = {}
    /\ ret[1].match_factor = 0
    /\ \E x \in arg[4] : FactorWithAdded(arg, 1, x) > 0

\* The brand's weight set id / rule set id is absent (NULL) or its lookup
\* returns nothing.
WeightSetMissing(brand) == brand.default_match_weight_set_id \notin DOMAIN weightSets

RuleSetMissing(brand) == brand.default_match_rule_set_id \notin DOMAIN ruleSets

\* The weight each criterion of a breakdown carries, as a weight set.
WeightsOf(breakdown) ==
    [c \in DOMAIN breakdown |-> breakdown[c].weight]

\* The budget factor of the pair under the near-boundary ratio `ratio`.
BudgetFactorOf(brand, event, ratio) ==
    score_budget(OrZero(event.package_min), OrZero(event.package_max),
                 OrZero(brand.spend_per_event_min), OrZero(brand.spend_per_event_max),
                 0, ratio).match_factor

\* C13: a brand whose weight set is missing is scored with the weights
\* category 0.25, geo 0.20, budget 0.20, audience 0.20, deliverables 0.15,
\* and one whose rule set is missing with no enforcement flag set and
\* budget_near_boundary_ratio 0.1; a set that is not missing is used as
\* stored, whatever the other one is; and a pair of a brand without a rule
\* set is rejected, by either evaluation, only for an avoided category
\* (the pairs of a store are examined once, before a call starts).
C13_MissingConfigUsesDefaults ==
    /\ pc = "idle" =>
          \A b \in DOMAIN brandProfile, e \in DOMAIN eventProfile :
              (RuleSetMissing(brandProfile[b]) /\ ~HitsAvoided(brandProfile[b], eventProfile[e]))
                  => /\ evaluate_brand_for_events(b, e) # << >>
                     /\ evaluate_event_for_brands(b, e) # << >>
    /\ Returned =>
          \A item \in ReturnedItems :
              LET brand == ItemBrand(item)
                  event == ItemEvent(item)
                  used == WeightsOf(item.breakdown)
                  w == IF WeightSetMissing(brand)
                       THEN [category |-> 25, geo |-> 20, budget |-> 20,
                             audience |-> 20, deliverables |-> 15]
                       ELSE weightSets[brand.default_match_weight_set_id]
                  ratio == IF RuleSetMissing(brand) THEN 10
                           ELSE ruleSets[brand.default_match_rule_set_id].budget_near_boundary_ratio
              IN  /\ used.geography = w.geo
                  /\ used.budget = w.budget
                  /\ used.categories = w.category
                  /\ "audience" \in DOMAIN used => used.audience = w.audience
                  /\ "deliverables" \in DOMAIN used => used.deliverables = w.deliverables
                  /\ item.breakdown.budget.match_factor = BudgetFactorOf(brand, event, ratio)

\* C13 witness: get_matches_for_brand has returned an item for a brand whose
\* weight set id does not resolve while its rule set does.
C13_Witness ==
    /\ Returned
    /\ fn = "get_matches_for_brand"
    /\ arg \in DOMAIN brandProfile
    /\ brandProfile[arg].default_match_weight_set_id # 0
    /\ WeightSetMissing(brandProfile[arg])
    /\ ~RuleSetMissing(brandProfile[arg])
    /\ ret[1].matches # << >>

\* The geography hard filter fails for the pair: the event has no city, its
\* city does not resolve, or nothing matches at the brand's focus level.
GeoMismatch(brand, event) ==
    \/ event.city_id = 0
    \/ resolve_city_geography(event.city_id) = << >>
    \/ ~check_geographic_match(event.city_id, brand).matches

\* The brand's rule set enforces the must-have deliverables and the event
\* fails them (it offers nothing, or lacks a must-have).
FailsEnforcedMustHave(brand, event) ==
    /\ LoadRules(brand).enforce_must_have_deliverables
    /\ \/ event.deliverables_offered = {}
       \/ MissesMustHave(brand, event)

\* C19: with enforce_city_filter set in the brand's rule set, a pair whose
\* geography hard filter failed is rejected by both evaluations, so no item
\* returned for such a brand has geography factor 0; without the flag a
\* geography mismatch does not reject the pair (an avoided category or an
\* enforced must-have still may) and its geography contributes 0 (the pairs
\* of a store are examined once, before a call starts).
C19_CityFilterRejectsOnlyWhenEnforced ==
    /\ pc = "idle" =>
          \A b \in DOMAIN brandProfile, e \in DOMAIN eventProfile :
              LET brand == brandProfile[b]
                  event == eventProfile[e]
              IN  GeoMismatch(brand, event) =>
                      IF LoadRules(brand).enforce_city_filter
                      THEN /\ evaluate_brand_for_events(b, e) = << >>
                           /\ evaluate_event_for_brands(b, e) = << >>
                      ELSE ~HitsAvoided(brand, event) =>
                              /\ evaluate_event_for_brands(b, e) # << >>
                              /\ ~FailsEnforcedMustHave(brand, event)
                                    => evaluate_brand_for_events(b, e) # << >>
    /\ Returned =>
          \A item \in ReturnedItems :
              IF LoadRules(ItemBrand(item)).enforce_city_filter
              THEN item.breakdown.geography.match_factor > 0
              ELSE GeoMismatch(ItemBrand(item), ItemEvent(item)) =>
                      /\ item.breakdown.geography.match_factor = 0
                      /\ item.breakdown.geography.contribution = 0

\* C19 witness: get_matches_for_event has returned for an event without a
\* city, with two active brands: one enforces the city filter and is absent
\* from the results, the other does not and is among them.
C19_Witness ==
    /\ Returned
    /\ fn = "get_matches_for_event"
    /\ arg \in DOMAIN eventProfile
    /\ eventProfile[arg].city_id = 0
    /\ \E i, j \in 1..Len(ids) :
          /\ ids[i] \in DOMAIN brandProfile
          /\ ids[j] \in DOMAIN brandProfile
          /\ LoadRules(brandProfile[ids[i]]).enforce_city_filter
          /\ ~LoadRules(brandProfile[ids[j]]).enforce_city_filter
          /\ \A item \in ReturnedItems : item.brand_org_id # ids[i]
          /\ \E item \in ReturnedItems : item.brand_org_id = ids[j]

\* The item get_matches_for_event builds from an evaluation and the brand.
EventItem(brand_org_id, result) ==
    [brand_org_id |-> brand_org_id,
     brand_name |-> brandProfile[brand_org_id].brand_name,
     total_score |-> result.total_score,
     max_score |-> result.max_score,
     match_percentage |-> result.match_percentage,
     breakdown |-> result.breakdown,
     explanation |-> result.explanation]

\* The matches list of get_matches_for_brand(b) and of
\* get_matches_for_event(e) as a function of the store alone: the results of
\* the pair evaluations over the active counterpart ids in ascending order,
\* the rejected ones left out, sorted.
MatchesForBrandOf(b) ==
    LET evs == get_all_event_orgs
        results == [i \in 1..Len(evs) |-> evaluate_brand_for_events(b, evs[i])]
        kept == SelectSeq(results, LAMBDA r : r # << >>)
    IN  SortByMatchPercentageDesc([i \in 1..Len(kept) |-> kept[i][1]])

MatchesForEventOf(e) ==
    LET bs == get_all_brand_orgs
        results == [i \in 1..Len(bs) |-> <<bs[i], evaluate_event_for_brands(bs[i], e)>>]
        kept == SelectSeq(results, LAMBDA r : r[2] # << >>)
    IN  SortByMatchPercentageDesc(
            [i \in 1..Len(kept) |-> EventItem(kept[i][1], kept[i][2][1])])

C18_StoreUnchangedNoStateKept ==
    [][/\ store' = store
       /\ pc' = "idle" =>
             /\ fn' = "" /\ arg' = 0 /\ subject' = << >> /\ ids' = << >>
             /\ idx' = 0 /\ match_result' = << >> /\ matches' = << >>
             /\ ret' = << >>]_vars

\* C18 witness: get_matches_for_brand has returned an item for a brand whose
\* weight set id does not resolve and whose rule set id is absent or does
\* not resolve either.
C18_Witness ==
    /\ Returned
    /\ fn = "get_matches_for_brand"
    /\ arg \in DOMAIN brandProfile
    /\ WeightSetMissing(brandProfile[arg])
    /\ RuleSetMissing(brandProfile[arg])
    /\ ret[1].matches # << >>

\* ------------------------------------------------------------------------
\* The configuration store changing under a running batch.  The writer is
\* not the matching code (an operator, a migration): while a batch is in its
\* loop, one weight set or rule set is deactivated, or the row of a weight
\* set is updated.  The configuration changes at most once.
\* ------------------------------------------------------------------------
\* The "Budget First" row of the seed data.
BudgetFirstWeights ==
    [category |-> 20, geo |-> 15, budget |-> 40, audience |-> 15, deliverables |-> 10]

ConfigChanges ==
    /\ pc \in {"brand_loop", "event_loop", "event_fetch"}
    /\ weightSets = InitWeightSets
    /\ ruleSets = InitRuleSets
    /\ \/ \E k \in DOMAIN weightSets :
             /\ weightSets' = [j \in DOMAIN weightSets \ {k} |-> weightSets[j]]
             /\ UNCHANGED ruleSets
       \/ \E k \in DOMAIN weightSets :
             /\ weightSets' = [weightSets EXCEPT ![k] = BudgetFirstWeights]
             /\ UNCHANGED ruleSets
       \/ \E k \in DOMAIN ruleSets :
             /\ ruleSets' = [j \in DOMAIN ruleSets \ {k} |-> ruleSets[j]]
             /\ UNCHANGED weightSets
    /\ UNCHANGED <<orgActive, brandProfile, eventProfile,
                   fn, pc, arg, subject, ids, idx, match_result, matches, ret>>

NextConcurrent ==
    \/ Next
    \/ ConfigChanges

SpecConcurrent == Init /\ [][NextConcurrent]_vars

\* C17 (as claimed): every item of one get_matches_for_brand result was
\* scored with the same weight set: all items carry the same weights and the
\* same max_score, also when the configuration store changes while the
\* batch is running.
C17_BatchUsesOneConfigSnapshot ==
    (Returned /\ fn = "get_matches_for_brand") =>
        \A i, j \in ReturnedItems :
            /\ WeightsOf(i.breakdown) = WeightsOf(j.breakdown)
            /\ i.max_score = j.max_score

\* C21: for non-null ranges score_budget returns factor 1.0 iff
\* max(bmin, emin) <= min(bmax, emax); otherwise 0.5 iff
\* min(|emax - bmin|, |bmax - emin|) <= max(bmax - bmin, emax - emin) *
\* budget_near_boundary_ratio, and 0.0 in every other case. Brand
\* [75000, 200000] with event [100000, 200000] gives 1.0 and brand
\* [5000, 25000] with event [100000, 200000] at ratio 0.1 gives 0.0.
C21_BudgetFactorCases ==
    /\ BudgetReturned =>
          LET emin == arg[1][1]
              emax == arg[2][1]
              bmin == arg[3][1]
              bmax == arg[4][1]
              lo == IF bmin >= emin THEN bmin ELSE emin
              hi == IF bmax <= emax THEN bmax ELSE emax
              d1 == IF emax >= bmin THEN emax - bmin ELSE bmin - emax
              d2 == IF bmax >= emin THEN bmax - emin ELSE emin - bmax
              nearest == IF d1 <= d2 THEN d1 ELSE d2
              widest == IF bmax - bmin >= emax - emin THEN bmax - bmin ELSE emax - emin
              near == nearest * 100 <= widest * arg[6]
              f == ret[1].match_factor
          IN  /\ f \in {0, FactorScale \div 2, FactorScale}
              /\ f = FactorScale <=> lo <= hi
              /\ f = FactorScale \div 2 <=> (~(lo <= hi) /\ near)
              /\ f = 0 <=> (~(lo <= hi) /\ ~near)
              /\ ret[1].contribution = arg[5] * f
    /\ score_budget(<<100000>>, <<200000>>, <<75000>>, <<200000>>, 20, 10).match_factor = FactorScale
    /\ score_budget(<<100000>>, <<200000>>, <<5000>>, <<25000>>, 20, 10).match_factor = 0

\* C21 witness: score_budget has returned the partial factor for two ranges
\* that do not overlap and whose gap is exactly the threshold.
C21_Witness ==
    /\ BudgetReturned
    /\ arg[1][1] < arg[2][1]
    /\ arg[3][1] < arg[4][1]
    /\ arg[2][1] < arg[3][1]
    /\ (arg[3][1] - arg[2][1]) * 100 = (arg[4][1] - arg[3][1]) * arg[6]
    /\ arg[6] > 0
    /\ ret[1].match_factor = FactorScale \div 2

\* score_deliverables has returned; its arguments are the offered, the
\* wanted and the must-have deliverable ids and the weight.
DeliverablesReturned == pc = "done" /\ fn = "score_deliverables"

\* C22: when the event offers at least one deliverable and no must-have is
\* missing, score_deliverables returns |offered \cap wanted| / |wanted| if
\* the brand has wanted deliverables and the intersection is non-empty, 0.5
\* if it has wanted deliverables and the intersection is empty, and 1.0 if
\* it has none; the contribution is weight times that factor.
C22_DeliverablesFactorCases ==
    (DeliverablesReturned /\ arg[1] # {} /\ arg[3] \subseteq arg[1]) =>
        LET common == {d \in arg[2] : d \in arg[1]}
            f == ret[1].match_factor
        IN  /\ (arg[2] # {} /\ common # {})
                  => f * Cardinality(arg[2]) = Cardinality(common) * FactorScale
            /\ (arg[2] # {} /\ common = {}) => 2 * f = FactorScale
            /\ arg[2] = {} => f = FactorScale
            /\ ret[1].contribution = arg[4] * f

\* C22 witness: score_deliverables has returned for an event that offers
\* two of three wanted deliverables, one of them a must-have.
C22_Witness ==
    /\ DeliverablesReturned
    /\ Cardinality(arg[2]) = 3
    /\ Cardinality(arg[2] \cap arg[1]) = 2
    /\ arg[3] # {}
    /\ arg[3] \subseteq arg[1]
    /\ 3 * ret[1].match_factor = 2 * FactorScale

\* C23 (as claimed): score_deliverables reports passed_hard_filter = true for
\* every input in which no must-have deliverable of the brand is missing
\* from the event's offered set, a brand without must-haves included.
C23_PassedWheneverNoMustHaveMissing ==
    (DeliverablesReturned /\ arg[3] \subseteq arg[1]) => ret[1].passed_hard_filter

\* C23 (amended): score_deliverables reports passed_hard_filter = true
\* exactly when the event offers at least one deliverable and no must-have
\* of the brand is missing from the offer; an event that offers nothing
\* fails the hard filter with factor 0, for a brand without must-haves too.
C23_PassedIffOfferedAndNoMustHaveMissing ==
    DeliverablesReturned =>
        /\ ret[1].passed_hard_filter <=> (arg[1] # {} /\ arg[3] \subseteq arg[1])
        /\ arg[1] = {} => (~ret[1].passed_hard_filter /\ ret[1].match_factor = 0)

\* C23 witness: score_deliverables has passed the hard filter for a brand
\* without must-haves whose wanted deliverables the event does not offer.
C23_Witness ==
    /\ DeliverablesReturned
    /\ arg[3] = {}
    /\ arg[2] # {}
    /\ arg[1] # {}
    /\ arg[1] \cap arg[2] = {}
    /\ ret[1].passed_hard_filter

\* C29: score_deliverables is monotonic in the event's offer: with the
\* brand's wanted and must-have lists fixed and no must-have missing, adding
\* one more wanted deliverable to a non-empty offer never decreases
\* match_factor.
C29_DeliverablesMonotonicInOffer ==
    (DeliverablesReturned /\ arg[1] # {} /\ arg[3] \subseteq arg[1]) =>
        \A x \in arg[2] \ arg[1] :
            score_deliverables(arg[1] \cup {x}, arg[2], arg[3], arg[4]).match_factor
                >= ret[1].match_factor

\* ------------------------------------------------------------------------
\* The two pair evaluations on their own: one brand profile and one event
\* profile are in the store, an evaluation is called with the ids of a pair
\* (which may name a profile that is not there), the row of a rule set is
\* then updated in the fields the evaluations never read, and the same
\* evaluation is called again.
\* ------------------------------------------------------------------------
\* The brand profiles of BrandTemplates and one whose preferred and avoided
\* categories overlap, each with every rule set id (0 is NULL, 3 does not
\* resolve).
PairBrandTemplates ==
    {[t EXCEPT !.default_match_rule_set_id = r] :
        t \in BrandTemplates \cup
              {[default_match_weight_set_id |-> 1, default_match_rule_set_id |-> 0,
                geographic_focus_type |-> "national",
                target_cities |-> {}, target_states |-> {}, target_countries |-> {1},
                spend_per_event_min |-> <<30>>, spend_per_event_max |-> <<50>>,
                preferred_categories |-> {1, 2}, avoided_categories |-> {1},
                wanted_deliverables |-> {1, 2}, must_have_deliverables |-> {1},
                target_age_buckets |-> {1}, target_audience_types |-> {2},
                target_interest_tags |-> {1}]},
        r \in 0..3}

InitEvaluations ==
    /\ orgActive = [o \in OrgIds |-> TRUE]
    /\ \E tb \in PairBrandTemplates, te \in EventTemplates :
          /\ brandProfile = (1 :> MkBrand(1, tb))
          /\ eventProfile = (NBrands + 1 :> MkEvent(NBrands + 1, te))
    /\ weightSets = InitWeightSets
    /\ ruleSets = InitRuleSets
    /\ pc = "idle"
    /\ fn \in {"evaluate_event_for_brands", "evaluate_brand_for_events"}
    /\ arg \in BrandIds \X EventIds
    /\ subject = << >>
    /\ ids = << >>
    /\ idx = 0
    /\ match_result = << >>
    /\ matches = << >>
    /\ ret = << >>

\* The evaluation named by fn, of the pair in arg.
Evaluation ==
    IF fn = "evaluate_event_for_brands"
    THEN evaluate_event_for_brands(arg[1], arg[2])
    ELSE evaluate_brand_for_events(arg[1], arg[2])

ApplyEvaluateEventForBrands ==
    /\ pc = "idle"
    /\ fn = "evaluate_event_for_brands"
    /\ ret' = <<evaluate_event_for_brands(arg[1], arg[2])>>
    /\ pc' = "done"
    /\ UNCHANGED <<fn, arg, subject, ids, idx, match_result, matches, store>>

ApplyEvaluateBrandForEvents ==
    /\ pc = "idle"
    /\ fn = "evaluate_brand_for_events"
    /\ ret' = <<evaluate_brand_for_events(arg[1], arg[2])>>
    /\ pc' = "done"
    /\ UNCHANGED <<fn, arg, subject, ids, idx, match_result, matches, store>>

\* Values of the rule fields that get_match_rule_set returns and neither
\* evaluation reads: either flag on or off, the thresholds all at their
\* lowest or all at their highest (ratios and scores in hundredths).
UnreadRuleValues ==
    {[enforce_date_window |-> dates,
      enforce_budget_overlap |-> budget,
      min_budget_overlap_ratio |-> IF high THEN 100 ELSE 0,
      allowed_date_slack_days |-> IF high THEN 30 ELSE 1,
      min_audience_overlap_score |-> IF high THEN 100 ELSE 0,
      footfall_partial_match_ratio |-> IF high THEN 100 ELSE 0] :
        dates \in BOOLEAN, budget \in BOOLEAN, high \in BOOLEAN}

\* Another session updates those fields of one rule set row; the first
\* result is kept for comparison.
UnreadRuleFieldsChange ==
    /\ pc = "done"
    /\ fn \in {"evaluate_event_for_brands", "evaluate_brand_for_events"}
    /\ \E k \in DOMAIN ruleSets, v \in UnreadRuleValues :
          ruleSets' = [ruleSets EXCEPT ![k] = v @@ ruleSets[k]]
    /\ match_result' = ret
    /\ pc' = "changed"
    /\ UNCHANGED <<orgActive, brandProfile, eventProfile, weightSets,
                   fn, arg, subject, ids, idx, matches, ret>>

\* The same evaluation is called again on the updated store.
EvaluateAgain ==
    /\ pc = "changed"
    /\ ret' = <<Evaluation>>
    /\ pc' = "again"
    /\ UNCHANGED <<fn, arg, subject, ids, idx, match_result, matches, store>>

NextEvaluations ==
    \/ ApplyEvaluateEventForBrands
    \/ ApplyEvaluateBrandForEvents
    \/ UnreadRuleFieldsChange
    \/ EvaluateAgain

SpecEvaluations == InitEvaluations /\ [][NextEvaluations]_vars

\* An evaluation of a pair whose two profiles are in the store has returned
\* (a result or None).
Evaluated ==
    /\ pc \in {"done", "changed", "again"}
    /\ fn \in {"evaluate_event_for_brands", "evaluate_brand_for_events"}
    /\ arg[1] \in DOMAIN brandProfile
    /\ arg[2] \in DOMAIN eventProfile

\* The evaluation has returned a result, not None.
EvaluatedResult == Evaluated /\ ret[1] # << >>

\* The criteria in the order the breakdown dict holds them.
BreakdownOrder == <<"geography", "budget", "categories", "audience", "deliverables">>

\* The criteria of a breakdown whose match_factor is positive, in breakdown
\* order.
PositiveCriteria(bd) ==
    LET Positive(n) == n \in DOMAIN bd /\ bd[n].match_factor > 0
    IN  SelectSeq(BreakdownOrder, Positive)

\* The lines of an explanation that open a criterion's entry ("<Criterion>: ").
HeadedLines(explanation) ==
    LET Headed(line) == line[1] # ""
    IN  SelectSeq(explanation, Headed)

\* C24 (as claimed): the explanation of a returned result has one line for
\* each criterion of the breakdown whose match_factor > 0, in breakdown
\* order, and no line for a criterion whose factor is 0; with no positive
\* criterion it is exactly "Minimal match".
C24_OneLinePerPositiveCriterion ==
    EvaluatedResult =>
        LET bd == ret[1][1].breakdown
            explanation == ret[1][1].explanation
            pos == PositiveCriteria(bd)
        IN  IF pos = << >>
            THEN explanation = <<<<"", "Minimal match">>>>
            ELSE /\ Len(explanation) = Len(pos)
                 /\ \A i \in 1..Len(pos) : explanation[i][1] = Title(pos[i])

\* C24 (amended): the explanation of a returned result has one entry
\* "<Criterion>: <explanation>" for each criterion of the breakdown whose
\* match_factor > 0, in breakdown order, and none for a criterion whose
\* factor is 0; an entry is one line, except the audience entry, which has
\* one line per audience dimension that was scored (up to three); with no
\* positive criterion the explanation is exactly "Minimal match".
C24_OneEntryPerPositiveCriterion ==
    /\ EvaluatedResult =>
          LET bd == ret[1][1].breakdown
              explanation == ret[1][1].explanation
              pos == PositiveCriteria(bd)
              heads == HeadedLines(explanation)
          IN  IF pos = << >>
              THEN explanation = <<<<"", "Minimal match">>>>
              ELSE /\ Len(heads) = Len(pos)
                   /\ \A i \in 1..Len(pos) :
                         heads[i] = <<Title(pos[i]), bd[pos[i]].explanation[1]>>
                   /\ Len(explanation) =
                         SumSeq([i \in 1..Len(pos) |-> Len(bd[pos[i]].explanation)])
                   /\ \A n \in DOMAIN bd :
                         Len(bd[n].explanation) \in
                             (IF n = "audience" THEN 1..3 ELSE {1})
    /\ LET zero == [weight |-> 10, match_factor |-> 0, contribution |-> 0,
                    explanation |-> <<"No match">>]
           bd == [geography |-> zero, budget |-> zero, categories |-> zero]
       IN  BuildResult([event_org_id |-> 1, event_name |-> OrgName(1)], bd,
                       <<"geography", "budget", "categories">>).explanation
               = <<<<"", "Minimal match">>>>

\* C24 witness: evaluate_brand_for_events has returned a result whose
\* audience factor is positive and whose audience entry has two lines or
\* more, next to a criterion with factor 0 that has no entry.
C24_Witness ==
    /\ EvaluatedResult
    /\ fn = "evaluate_brand_for_events"
    /\ ret[1][1].breakdown.audience.match_factor > 0
    /\ Len(ret[1][1].breakdown.audience.explanation) >= 2
    /\ \E n \in DOMAIN ret[1][1].breakdown : ret[1][1].breakdown[n].match_factor = 0
    /\ Len(HeadedLines(ret[1][1].explanation)) < Len(ret[1][1].explanation)

InitRemoval ==
    /\ Init
    /\ orgActive = [o \in OrgIds |-> TRUE]

BrandProfileRemoved ==
    /\ pc \in {"brand_loop", "event_loop", "event_fetch"}
    /\ \E b \in DOMAIN brandProfile :
          brandProfile' = [x \in DOMAIN brandProfile \ {b} |-> brandProfile[x]]
    /\ UNCHANGED <<orgActive, eventProfile, weightSets, ruleSets,
                   fn, pc, arg, subject, ids, idx, match_result, matches, ret>>

NextRemoval ==
    \/ \E brand_org_id \in OrgIds : CallGetMatchesForBrand(brand_org_id)
    \/ BrandLoopStep
    \/ BrandLoopReturn
    \/ \E event_org_id \in OrgIds : CallGetMatchesForEvent(event_org_id)
    \/ EventLoopStep
    \/ EventLoopFetch
    \/ EventLoopReturn
    \/ Finish
    \/ BrandProfileRemoved

SpecRemoval == InitRemoval /\ [][NextRemoval]_vars

\* The fields of an item of a get_matches_for_event result.
EventItemFields ==
    {"brand_org_id", "brand_name", "total_score", "max_score",
     "match_percentage", "breakdown", "explanation"}

\* The iteration of get_matches_for_event that follows an evaluation with a
\* result ends: the brand is re-fetched and the item appended or skipped.
EventIterationEnds == pc = "event_fetch" /\ pc' = "event_loop"

\* C26: every item of a get_matches_for_event result carries the id and the
\* name of the brand that was evaluated, no event field, and the scores of
\* that evaluation; when the brand's profile is gone at the re-fetch of its
\* name the item is skipped and the batch goes on with the next brand, so no
\* item is emitted for a brand that is absent at re-fetch time.
C26_EventItemsCarryEvaluatedBrand ==
    /\ [](pc \in {"event_loop", "event_fetch"} =>
            \A i \in 1..Len(matches) :
                /\ DOMAIN matches[i] = EventItemFields
                /\ matches[i].brand_org_id \in {ids[j] : j \in 1..(idx - 1)}
                /\ matches[i].brand_name = OrgName(matches[i].brand_org_id))
    /\ []((pc = "event_fetch" /\ ids[idx] \in DOMAIN brandProfile) =>
            match_result = evaluate_event_for_brands(ids[idx], arg))
    /\ []((Returned /\ fn = "get_matches_for_event") =>
            /\ {ret[1].matches[i] : i \in 1..Len(ret[1].matches)}
                  = {matches[i] : i \in 1..Len(matches)}
            /\ Len(ret[1].matches) = Len(matches))
    /\ [][EventIterationEnds =>
            /\ idx' = idx + 1
            /\ IF ids[idx] \in DOMAIN brandProfile
               THEN /\ Len(matches') = Len(matches) + 1
                    /\ SubSeq(matches', 1, Len(matches)) = matches
                    /\ LET item == matches'[Len(matches')]
                       IN  /\ item.brand_org_id = ids[idx]
                           /\ item.brand_name = brandProfile[ids[idx]].brand_name
                           /\ \A f \in EventItemFields \ {"brand_org_id", "brand_name"} :
                                 item[f] = match_result[1][f]
               ELSE matches' = matches]_vars

\* C26 witness: in a get_matches_for_event batch a brand was evaluated with
\* a result and its profile is gone when its name is to be re-fetched, with
\* another brand still to come.
C26_Witness ==
    /\ pc = "event_fetch"
    /\ match_result # << >>
    /\ ids[idx] \notin DOMAIN brandProfile
    /\ idx < Len(ids)
    /\ ids[idx + 1] \in DOMAIN brandProfile

\* C27: in every returned result of either evaluation the category factor
\* is 0.5 or 1.0, never 0: a pair whose event has a category the brand
\* avoids is always rejected, and no other pair has category factor 0; so
\* the explanation of a returned result has the categories line and is
\* never "Minimal match".
C27_ReturnedCategoryFactorPositive ==
    /\ (Evaluated /\ HitsAvoided(brandProfile[arg[1]], eventProfile[arg[2]]))
          => ret[1] = << >>
    /\ EvaluatedResult =>
          LET result == ret[1][1]
          IN  /\ 2 * result.breakdown.categories.match_factor \in {FactorScale, 2 * FactorScale}
              /\ \E i \in 1..Len(result.explanation) :
                    result.explanation[i][1] = "Categories"
              /\ \A i \in 1..Len(result.explanation) :
                    result.explanation[i][2] # "Minimal match"

\* C27 witness: an evaluation has returned a result whose only positive
\* criterion is the categories one, with the neutral factor and weight 0.
C27_Witness ==
    /\ EvaluatedResult
    /\ \A n \in DOMAIN ret[1][1].breakdown :
          n # "categories" => ret[1][1].breakdown[n].match_factor = 0
    /\ 2 * ret[1][1].breakdown.categories.match_factor = FactorScale
    /\ ret[1][1].breakdown.categories.weight = 0
    /\ Len(ret[1][1].explanation) = 1

\* C28: in an unchanged store the five-criterion evaluation rejects every
\* pair that the three-criterion evaluation rejects, so for an active brand
\* b every event in the result of get_matches_for_brand(b) has b in the
\* result of get_matches_for_event(e) (the pairs of a store are examined
\* once, before a call starts).
C28_BrandBatchWithinEventBatch ==
    /\ pc = "idle" =>
          \A b \in DOMAIN brandProfile, e \in DOMAIN eventProfile :
              evaluate_event_for_brands(b, e) = << >>
                  => evaluate_brand_for_events(b, e) = << >>
    /\ (Returned /\ fn = "get_matches_for_brand" /\ arg \in BrandIds /\ orgActive[arg]) =>
          \A item \in ReturnedItems :
              LET of_event == MatchesForEventOf(item.event_org_id)
              IN  \E j \in 1..Len(of_event) : of_event[j].brand_org_id = arg

\* C28 witness: get_matches_for_brand has returned an event for an active
\* brand, and left out another active event that the three-criterion
\* evaluation accepts for the brand.
C28_Witness ==
    /\ Returned
    /\ fn = "get_matches_for_brand"
    /\ arg \in BrandIds
    /\ orgActive[arg]
    /\ ret[1].matches # << >>
    /\ \E e \in DOMAIN eventProfile :
          /\ orgActive[e]
          /\ \A item \in ReturnedItems : item.event_org_id # e
          /\ evaluate_event_for_brands(arg, e) # << >>

\* C30: when the brand's profile is removed while get_matches_for_brand is
\* iterating over the events, the call does not raise; an event evaluated
\* after the removal adds nothing to the matches; and the call returns the
\* brand id and name read at the start with the matches collected before
\* the removal, sorted by match_percentage descending.
C30_BrandRemovedMidBatch ==
    /\ [](pc # "raised")
    /\ [][(pc = "brand_loop" /\ arg \notin DOMAIN brandProfile) => matches' = matches]_vars
    /\ []((Returned /\ fn = "get_matches_for_brand" /\ subject # << >>) =>
            /\ ret[1].brand_org_id = arg
            /\ ret[1].brand_name = OrgName(arg)
            /\ Len(ret[1].matches) = Len(matches)
            /\ {ret[1].matches[i] : i \in 1..Len(matches)}
                  = {matches[i] : i \in 1..Len(matches)}
            /\ \A i, j \in 1..Len(matches) :
                  i < j => ret[1].matches[i].match_percentage
                              >= ret[1].matches[j].match_percentage)

\* C30 witness: get_matches_for_brand has returned, under the brand's id and
\* name, one match out of two active events for a brand whose profile is no
\* longer in the store.
C30_Witness ==
    /\ Returned
    /\ fn = "get_matches_for_brand"
    /\ subject # << >>
    /\ arg \notin DOMAIN brandProfile
    /\ Len(ids) = 2
    /\ Len(ret[1].matches) = 1
    /\ ret[1].brand_name = OrgName(arg)

====
